---- MODULE Spec2Model ----
(***************************************************************************)
(* EV wireless-charging reservation demo.                                  *)
(*                                                                         *)
(* The model covers the slot-candidate computation of the admin page       *)
(* (AdminPage.tsx, buildSlotCandidates), the create / delete / refresh     *)
(* handlers of the admin page and of the user page (UserFront.tsx), and    *)
(* the reservation store behind the REST endpoints.  backend/app/main.py   *)
(* is not part of the sources at hand; the store and its admission rule    *)
(* are modelled from the design specification (sections 4.1, 5 and 7).     *)
(*                                                                         *)
(* A time of day "HH:MM" is the pair <<h, m>>; the empty string is <<>>.   *)
(***************************************************************************)
EXTENDS Integers, Sequences, FiniteSets, TLC

VARIABLES
    db,                 \* the reservation store: a set of reservation records
    nextId,             \* next identifier the store assigns
    req,                \* per client, the create request in flight and its answer
    eng,                \* a direct caller of the slot engine: its last query
    log,                \* admissions the store has answered, in order
    del,                \* AdminPage: the delete request in flight and its answer
    aSessions,          \* AdminPage: sessions
    aFetch,             \* AdminPage: session-list fetches in flight
    aLoading,           \* AdminPage: loading
    addSessionId,       \* AdminPage: addSessionId
    addDuration,        \* AdminPage: addDuration
    addStartTime,       \* AdminPage: addStartTime
    uSessions,          \* UserFront: sessions
    uRefresh,           \* UserFront: refreshSessions calls in flight
    uLoading,           \* UserFront: loading
    uCreate,            \* UserFront: how far handleCreateReservation has got
    selectedSessionId,  \* UserFront: selectedSessionId (0 is null)
    startTime,          \* UserFront: startTime
    duration,           \* UserFront: duration
    aError,             \* AdminPage: error
    uError,             \* UserFront: error
    uMine,              \* UserFront: the refreshMyReservations call in flight
    myReservations,     \* UserFront: myReservations, as the ids listed
    token,              \* AdminPage: token (0 is null)
    aDate,              \* AdminPage: date
    autoRefresh,        \* AdminPage: autoRefresh
    aEffect,            \* AdminPage: the current run of the fetch effect (0: unmounted)
    aTimers,            \* AdminPage: the intervals set by setInterval and not cleared
    now,                \* time, in ticks of TICK_MS
    aLogin,             \* AdminPage: the handleLogin request in flight
    aSessionsDate,      \* the date the list in AdminPage's sessions was fetched for
    session,            \* App: session.mode
    email,              \* App: email
    password,           \* App: password
    appLoading,         \* App: loading
    appError,           \* App: error
    login,              \* App: how far tryLogin has got, and the endpoints' answers
    run,                \* run_all: the script, the backend and the front-end process
    seeded              \* the store: the (date, session) pairs already queried

storeVars == <<db, nextId, req, eng, log>>
adminVars == <<del, aSessions, aFetch, aLoading, addSessionId, addDuration, addStartTime,
               aError>>
userVars == <<uSessions, uRefresh, uLoading, uCreate, selectedSessionId, startTime, duration,
              uError, uMine, myReservations>>
timerVars == <<token, aDate, autoRefresh, aEffect, aTimers, now, aLogin>>
appVars == <<session, email, password, appLoading, appError, login>>
restVars == <<appVars, run, seeded>>
extVars == <<timerVars, aSessionsDate, restVars>>
vars == <<storeVars, adminVars, userVars, extVars>>

----------------------------------------------------------------------------
(* Bounds of the model *)

MaxExisting == 2        \* reservations in a store the engine is queried against
MaxDurationSteps == 4   \* durations 30, 60, ... 30 * MaxDurationSteps
MaxId == 2              \* identifiers the store hands out in one run
MaxAdmissions == 3      \* admission requests sent straight to the store in one run
NumSessions == 2        \* sessions 1..NumSessions (the pages offer 1..4)
NumDates == 1           \* dates 1..NumDates
MaxInFlight == 1        \* requests one page has in flight at a time

(* Program constants *)

WINDOW_OPEN == 540      \* 9 * 60
LAST_START == 1260      \* 21 * 60
WINDOW_CLOSE == 1320    \* 22 * 60
SLOT_STEP == 30

SessionIds == 1..NumSessions
Dates == 1..NumDates
Clients == {"admin", "user"}

NoTime == <<>>

----------------------------------------------------------------------------
(* Time strings *)

toMinutes(hhmm) == hhmm[1] * 60 + hhmm[2]

minutesToTime(value) == <<value \div 60, value % 60>>

\* a.localeCompare(b) < 0 on zero-padded "HH:MM" strings
TimeBefore(a, b) == a[1] < b[1] \/ (a[1] = b[1] /\ a[2] < b[2])

----------------------------------------------------------------------------
(* AdminPage.tsx: buildSlotCandidates *)

occupied(reservations) ==
    [i \in 1..Len(reservations) |->
        <<toMinutes(reservations[i].startTime), toMinutes(reservations[i].endTime)>>]

SlotConflict_EndInclusive(start, end, occ) ==
    \E i \in 1..Len(occ) : ~(end < occ[i][1] \/ start >= occ[i][2])

SlotConflict_StartInclusive(start, end, occ) ==
    \E i \in 1..Len(occ) : ~(end <= occ[i][1] \/ start > occ[i][2])

SlotConflict_StartOnly(start, end, occ) ==
    \E i \in 1..Len(occ) : start >= occ[i][1] /\ start < occ[i][2]

SlotConflict(start, end, occ) ==
    \E i \in 1..Len(occ) : ~(end <= occ[i][1] \/ start >= occ[i][2])

RECURSIVE SlotLoop_ExclusiveBound(_, _, _)
SlotLoop_ExclusiveBound(minutes, occ, durationMin) ==
    IF minutes >= LAST_START THEN <<>>
    ELSE LET start == minutes
             end == start + durationMin
             rest == SlotLoop_ExclusiveBound(minutes + SLOT_STEP, occ, durationMin)
         IN  IF end > WINDOW_CLOSE THEN rest
             ELSE IF ~SlotConflict(start, end, occ)
                  THEN <<minutesToTime(start)>> \o rest
                  ELSE rest

RECURSIVE SlotLoop_NoCloseCheck(_, _, _)
SlotLoop_NoCloseCheck(minutes, occ, durationMin) ==
    IF minutes > LAST_START THEN <<>>
    ELSE LET start == minutes
             end == start + durationMin
             rest == SlotLoop_NoCloseCheck(minutes + SLOT_STEP, occ, durationMin)
         IN  IF ~SlotConflict(start, end, occ)
             THEN <<minutesToTime(start)>> \o rest
             ELSE rest

RECURSIVE SlotLoop_Descending(_, _, _)
SlotLoop_Descending(minutes, occ, durationMin) ==
    IF minutes > LAST_START THEN <<>>
    ELSE LET start == minutes
             end == start + durationMin
             rest == SlotLoop_Descending(minutes + SLOT_STEP, occ, durationMin)
         IN  IF end > WINDOW_CLOSE THEN rest
             ELSE IF ~SlotConflict(start, end, occ)
                  THEN rest \o <<minutesToTime(start)>>
                  ELSE rest

RECURSIVE SlotLoop(_, _, _)
SlotLoop(minutes, occ, durationMin) ==
    IF minutes > LAST_START THEN <<>>
    ELSE LET start == minutes
             end == start + durationMin
             rest == SlotLoop(minutes + SLOT_STEP, occ, durationMin)
         IN  IF end > WINDOW_CLOSE THEN rest
             ELSE IF ~SlotConflict(start, end, occ)
                  THEN <<minutesToTime(start)>> \o rest
                  ELSE rest

\* slots kept across calls instead of being a fresh array in each call
buildSlotCandidates_SharedSlots(reservations, durationMin) ==
    eng.candidates \o SlotLoop(WINDOW_OPEN, occupied(reservations), durationMin)

buildSlotCandidates(reservations, durationMin) ==
    SlotLoop(WINDOW_OPEN, occupied(reservations), durationMin)

----------------------------------------------------------------------------
(* AdminPage.tsx: insertReservationSorted, the appended list sorted by start *)
(* time.  Array.prototype.sort is stable: rows of equal start time keep      *)
(* their order, so the record goes after every row that is not later.        *)

\* a row put into a sorted list, after every row whose start is not later
RECURSIVE StableInsert(_, _)
StableInsert(sorted, row) ==
    IF sorted = <<>> THEN <<row>>
    ELSE IF TimeBefore(row.startTime, Head(sorted).startTime)
         THEN <<row>> \o sorted
         ELSE <<Head(sorted)>> \o StableInsert(Tail(sorted), row)

\* [...].sort((a, b) => a.startTime.localeCompare(b.startTime))
RECURSIVE SortByStartTime(_)
SortByStartTime(rows) ==
    IF rows = <<>> THEN <<>>
    ELSE StableInsert(SortByStartTime(SubSeq(rows, 1, Len(rows) - 1)), rows[Len(rows)])

insertReservationSorted_Append(reservations, record) == Append(reservations, record)

insertReservationSorted(reservations, record) ==
    SortByStartTime(Append(reservations, record))

----------------------------------------------------------------------------
(* The reservation store and its admission rule (design spec 3, 4.1, 5, 7) *)

NoPayload == [sessionId |-> 0, date |-> 0, startTime |-> NoTime, durationMin |-> 0]
NoRecord == [id |-> 0, sessionId |-> 0, date |-> 0, startTime |-> NoTime,
             endTime |-> NoTime, status |-> "NONE", source |-> "none"]
IdleRequest == [state |-> "idle", payload |-> NoPayload, seen |-> {},
                outcome |-> "none", record |-> NoRecord]

\* half-open overlap of the requested [t, te) with an existing [s, e)
Overlaps_Closed(t, te, s, e) == t <= e /\ te >= s

Overlaps(t, te, s, e) == t < e /\ te > s

\* the occupied intervals of a (sessionId, date): cancelled records do not count
OccupiedIntervals_UsersOnly(store, sessionId, date) ==
    {<<toMinutes(r.startTime), toMinutes(r.endTime)>> :
        r \in {x \in store : x.sessionId = sessionId /\ x.date = date
                              /\ x.status # "CANCELLED" /\ x.source = "user"}}

OccupiedIntervals(store, sessionId, date) ==
    {<<toMinutes(r.startTime), toMinutes(r.endTime)>> :
        r \in {x \in store : x.sessionId = sessionId /\ x.date = date
                              /\ x.status # "CANCELLED"}}

\* ValidationError, decided before any conflict check
Validate_AnyDuration(p) ==
    IF \/ p.sessionId \notin SessionIds
       \/ p.date \notin Dates
       \/ p.durationMin <= 0
       \/ p.startTime = NoTime
    THEN "ValidationError"
    ELSE IF \/ toMinutes(p.startTime) < WINDOW_OPEN
            \/ toMinutes(p.startTime) + p.durationMin > WINDOW_CLOSE
         THEN "ValidationError"
         ELSE "ok"

Validate(p) ==
    IF \/ p.sessionId \notin SessionIds
       \/ p.date \notin Dates
       \/ p.durationMin <= 0
       \/ p.durationMin % SLOT_STEP # 0
       \/ p.startTime = NoTime
    THEN "ValidationError"
    ELSE IF \/ toMinutes(p.startTime) < WINDOW_OPEN
            \/ toMinutes(p.startTime) + p.durationMin > WINDOW_CLOSE
         THEN "ValidationError"
         ELSE "ok"

\* admission is serialized per (sessionId, date): the lock is held from the
\* read of the occupied intervals to the write of the record
LockHeld_Never(sessionId, date) == FALSE

LockHeld(sessionId, date) ==
    \E c \in Clients : /\ req[c].state = "read"
                       /\ req[c].payload.sessionId = sessionId
                       /\ req[c].payload.date = date

ConflictFound(p, seen) ==
    \E iv \in seen :
        Overlaps(toMinutes(p.startTime), toMinutes(p.startTime) + p.durationMin,
                 iv[1], iv[2])

NewRecord(p, id, source) ==
    [id |-> id, sessionId |-> p.sessionId, date |-> p.date,
     startTime |-> p.startTime,
     endTime |-> minutesToTime(toMinutes(p.startTime) + p.durationMin),
     status |-> "CONFIRMED", source |-> source]

\* admitReservation, step 1: validate, take the lock, read the occupied intervals
AdmitRead(c) ==
    /\ req[c].state = "sent"
    /\ LET p == req[c].payload IN
       IF Validate(p) # "ok"
       THEN req' = [req EXCEPT ![c].state = "done", ![c].outcome = Validate(p)]
       ELSE /\ ~LockHeld(p.sessionId, p.date)
            /\ req' = [req EXCEPT ![c].state = "read",
                                  ![c].seen = OccupiedIntervals(db, p.sessionId, p.date)]
    /\ UNCHANGED <<db, nextId>>

\* admitReservation, steps 2-5: overlap test, then reject or record; releases the lock
AdmitWrite(c) ==
    /\ req[c].state = "read"
    /\ LET p == req[c].payload IN
       IF ConflictFound(p, req[c].seen)
       THEN /\ req' = [req EXCEPT ![c].state = "done", ![c].outcome = "ConflictError",
                                  ![c].seen = {}]
            /\ UNCHANGED <<db, nextId>>
       ELSE LET created == NewRecord(p, nextId, c) IN
            /\ db' = db \cup {created}
            /\ nextId' = nextId + 1
            /\ req' = [req EXCEPT ![c].state = "done", ![c].outcome = "ok",
                                  ![c].record = created, ![c].seen = {}]

\* creates not yet answered; every one of them may still consume an identifier
OpenCreates == Cardinality({c \in Clients : req[c].state \in {"sent", "read"}})

\* GET /api/admin/sessions: the rows of a session, ordered by start time
RowBefore(x, y) ==
    \/ TimeBefore(x.startTime, y.startTime)
    \/ (x.startTime = y.startTime /\ x.id < y.id)

RECURSIVE SortRows(_)
SortRows(S) ==
    IF S = {} THEN <<>>
    ELSE LET first == CHOOSE x \in S : \A y \in S \ {x} : RowBefore(x, y)
         IN  <<first>> \o SortRows(S \ {first})

RowsOf(store, sessionId, date) ==
    SortRows({r \in store : r.sessionId = sessionId /\ r.date = date})

\* no page is open: the endpoints are called directly
IdleDelete == [state |-> "idle", id |-> 0, sessionId |-> 0, outcome |-> "none"]
IdleMine == [state |-> "idle", origin |-> "none", rows |-> {}]

Today == 1

\* setInterval(fetchSessions, 30_000), in ticks of TICK_MS
TIMER_PERIOD_MS == 30000
TICK_MS == 10000
TimerTicks == TIMER_PERIOD_MS \div TICK_MS

\* the interval an effect run sets: the run, when it was set, how often it fired
NewTimer(effect, at) == [effect |-> effect, date |-> Today, start |-> at, fired |-> 0]

IdleLogin == [phase |-> "idle", email |-> "", password |-> "", admin |-> "none", user |-> "none"]
IdleRun == [script |-> "none", missing |-> "none", pc |-> "none", backend |-> "none",
            frontend |-> "none", trap |-> FALSE, sigint |-> "none"]

\* App shows the login form and nothing has been typed
AppIdle ==
    /\ session = "login" /\ email = "" /\ password = ""
    /\ appLoading = FALSE /\ appError = "" /\ login = IdleLogin

RestIdle == AppIdle /\ run = IdleRun /\ seeded = {}

\* AdminPage is not mounted
AdminUnmounted ==
    /\ token = 0 /\ aDate = Today /\ autoRefresh = TRUE /\ aEffect = 0
    /\ aTimers = {} /\ now = 0 /\ aLogin = "idle" /\ aSessionsDate = 0

\* AdminPage has just been mounted with a token: the fetch effect has run once
AdminMounted ==
    /\ token = 1 /\ aDate = Today /\ autoRefresh = TRUE /\ aEffect = 1
    /\ aTimers = {NewTimer(1, 0)} /\ now = 0 /\ aLogin = "idle" /\ aSessionsDate = 0

PagesClosed ==
    /\ AdminUnmounted /\ RestIdle
    /\ del = IdleDelete
    /\ aSessions = <<>> /\ aFetch = <<>> /\ aLoading = FALSE
    /\ addSessionId = 1 /\ addDuration = 60 /\ addStartTime = NoTime /\ aError = ""
    /\ uSessions = <<>> /\ uRefresh = <<>> /\ uLoading = FALSE /\ uCreate = "idle"
    /\ selectedSessionId = 0 /\ startTime = NoTime /\ duration = 60 /\ uError = ""
    /\ uMine = IdleMine /\ myReservations = {}

----------------------------------------------------------------------------
(* The slot engine called directly: stores drawn from a bounded family,     *)
(* one candidate query, then one admission request for the same duration.   *)

EngSession == CHOOSE s \in SessionIds : \A x \in SessionIds : s <= x
EngDate == CHOOSE d \in Dates : \A x \in Dates : d <= x
EXISTING_LENGTHS == {60}
\* starts of the reservations a store is seeded with: 09:00-12:00 and 19:00-21:00
EXISTING_STARTS == {540, 570, 600, 630, 660, 690, 720, 1140, 1170, 1200, 1230, 1260}

GridStarts == {WINDOW_OPEN + SLOT_STEP * k : k \in 0..((WINDOW_CLOSE - WINDOW_OPEN) \div SLOT_STEP - 1)}

\* start times a direct request may carry: the grid, one step before the
\* window and up to its close
ProbeStarts == {WINDOW_OPEN - SLOT_STEP} \cup GridStarts \cup {WINDOW_CLOSE}

\* durations a direct caller asks for: the multiples of the granularity up to
\* the bound, and one longer than the whole window
EngDurations ==
    {SLOT_STEP * k : k \in 1..MaxDurationSteps} \cup {WINDOW_CLOSE - WINDOW_OPEN + SLOT_STEP}

ExistingIntervals ==
    {<<s, s + l>> : s \in EXISTING_STARTS, l \in EXISTING_LENGTHS} \cap
    {iv \in (WINDOW_OPEN..WINDOW_CLOSE) \X (WINDOW_OPEN..WINDOW_CLOSE) : iv[2] <= WINDOW_CLOSE}

RECURSIVE SetsUpTo(_, _)
SetsUpTo(X, k) ==
    IF k = 0 THEN {{}}
    ELSE LET P == SetsUpTo(X, k - 1) IN P \cup {p \cup {x} : p \in P, x \in X}

IntervalBefore(a, b) == a[1] < b[1] \/ (a[1] = b[1] /\ a[2] < b[2])

\* the store holding the intervals of S on the engine's session, ids by start order
StoreOf(S) ==
    {[id |-> Cardinality({j \in S : IntervalBefore(j, iv)}) + 1,
      sessionId |-> EngSession, date |-> EngDate,
      startTime |-> minutesToTime(iv[1]), endTime |-> minutesToTime(iv[2]),
      status |-> "CONFIRMED", source |-> "user"] : iv \in S}

EngIdle == [phase |-> "off", duration |-> 0, candidates |-> <<>>, store0 |-> {}]

InitEngine ==
    /\ \E S \in SetsUpTo(ExistingIntervals, MaxExisting) :
          /\ db = StoreOf(S)
          /\ nextId = Cardinality(S) + 1
          /\ eng = [phase |-> "start", duration |-> 0, candidates |-> <<>>,
                    store0 |-> StoreOf(S)]
    /\ req = [c \in Clients |-> IdleRequest]
    /\ log = <<>>
    /\ PagesClosed

\* availableForAdd: the candidates of the session's rows for a duration
EngCompute(d) ==
    /\ eng.phase = "start"
    /\ eng' = [eng EXCEPT !.phase = "computed", !.duration = d,
                          !.candidates = buildSlotCandidates(RowsOf(db, EngSession, EngDate), d)]
    /\ UNCHANGED <<db, nextId, req, log, adminVars, userVars, extVars>>

\* POST /api/admin/reservations with a start time of the caller's choosing
EngPost(t) ==
    /\ eng.phase = "computed"
    /\ eng' = [eng EXCEPT !.phase = "posted"]
    /\ req' = [req EXCEPT !["admin"] =
                 [IdleRequest EXCEPT !.state = "sent",
                    !.payload = [sessionId |-> EngSession, date |-> EngDate,
                                 startTime |-> minutesToTime(t),
                                 durationMin |-> eng.duration]]]
    /\ UNCHANGED <<db, nextId, log, adminVars, userVars, extVars>>

\* the same query once more, nothing having changed in between
EngRecompute ==
    /\ eng.phase = "computed"
    /\ eng' = [eng EXCEPT !.phase = "recomputed",
                          !.candidates = buildSlotCandidates(RowsOf(db, EngSession, EngDate),
                                                             eng.duration)]
    /\ UNCHANGED <<db, nextId, req, log, adminVars, userVars, extVars>>

EngAdmitRead == AdmitRead("admin") /\ UNCHANGED <<eng, log, adminVars, userVars, extVars>>

EngAdmitWrite == AdmitWrite("admin") /\ UNCHANGED <<eng, log, adminVars, userVars, extVars>>

NextEngine ==
    \/ \E d \in EngDurations : EngCompute(d)
    \/ EngRecompute
    \/ \E t \in ProbeStarts : EngPost(t)
    \/ EngAdmitRead
    \/ EngAdmitWrite

SpecEngine == InitEngine /\ [][NextEngine]_vars

----------------------------------------------------------------------------
(* Properties of the slot engine, checked under SpecEngine *)

Range(seq) == {seq[i] : i \in 1..Len(seq)}

EngReq == req["admin"]
EngStart == toMinutes(EngReq.payload.startTime)
EngEnd == EngStart + EngReq.payload.durationMin
EngComputed == eng.phase \in {"computed", "posted"}
EngAnswered == eng.phase = "posted" /\ EngReq.state = "done"
EngInWindow == EngStart >= 540 /\ EngEnd <= 1320

\* the intervals that were stored before the engine was called
Existing0 == {<<r.startTime[1] * 60 + r.startTime[2], r.endTime[1] * 60 + r.endTime[2]>> :
                 r \in eng.store0}

\* start times the candidate loop visits and keeps inside the window
LoopStarts(d) == {t \in GridStarts : t <= 1260 /\ t + d <= 1320}

AsTime(t) == <<t \div 60, t % 60>>

\* C3: an in-window admission request [t, t+d) is rejected with a conflict
\* exactly when some existing reservation [s, e) has t < e and t+d > s, and
\* the candidate filter drops a start time under exactly the same condition.
C3_RejectIffOverlap ==
    /\ (EngAnswered /\ EngInWindow) =>
          /\ (EngReq.outcome = "ConflictError") <=>
                (\E iv \in Existing0 : EngStart < iv[2] /\ EngEnd > iv[1])
          /\ (EngReq.outcome = "ok") <=>
                ~(\E iv \in Existing0 : EngStart < iv[2] /\ EngEnd > iv[1])
          /\ (EngStart \in LoopStarts(eng.duration)) =>
                ((EngReq.outcome = "ConflictError") <=>
                    (AsTime(EngStart) \notin Range(eng.candidates)))
    /\ EngComputed =>
          \A t \in LoopStarts(eng.duration) :
              (AsTime(t) \notin Range(eng.candidates)) <=>
                  (\E iv \in Existing0 : t < iv[2] /\ t + eng.duration > iv[1])

\* a conflicting request was answered, and one that conflicts with nothing
C3_Witness ==
    /\ EngAnswered /\ EngInWindow
    /\ EngReq.outcome = "ConflictError"
    /\ EngStart \in LoopStarts(eng.duration)
    /\ \E iv \in Existing0 : iv[2] = EngStart + 30

NonOverlapping(ivs) ==
    \A a \in ivs : \A b \in ivs : a # b => (a[2] <= b[1] \/ b[2] <= a[1])

\* C4: over a non-overlapping store and a supported duration, a start time
\* that the candidate list contains is admitted when requested right after.
C4_CandidateIsAdmitted ==
    (/\ EngAnswered
     /\ NonOverlapping(Existing0)
     /\ eng.duration \in {30, 60, 90, 120}
     /\ EngReq.payload.startTime \in Range(eng.candidates))
    => /\ EngReq.outcome = "ok"
       /\ EngReq.record \in db
       /\ EngReq.record.startTime = EngReq.payload.startTime
       /\ db = eng.store0 \cup {EngReq.record}

C4_Witness ==
    /\ EngAnswered
    /\ Cardinality(Existing0) = 2 /\ NonOverlapping(Existing0)
    /\ eng.duration = 90
    /\ EngReq.payload.startTime \in Range(eng.candidates)
    /\ EngReq.outcome = "ok"
    /\ \E iv \in Existing0 : iv[1] = EngEnd

\* C5 as stated: with the single reservation 10:00-11:00 and duration 60
\* the list leaves out 10:00 and 10:30 and holds 09:00, 09:30 and 11:00.
C5_Scenario2_AsStated ==
    (EngComputed /\ Existing0 = {<<600, 660>>} /\ eng.duration = 60)
    => /\ <<10, 0>> \notin Range(eng.candidates)
       /\ <<10, 30>> \notin Range(eng.candidates)
       /\ <<9, 0>> \in Range(eng.candidates)
       /\ <<9, 30>> \in Range(eng.candidates)
       /\ <<11, 0>> \in Range(eng.candidates)

\* C5 (amended): with the single reservation 10:00-11:00 and duration 60
\* the list leaves out 09:30, 10:00 and 10:30 (09:30-10:30 overlaps the
\* reservation too) and holds 09:00 and 11:00.
C5_Scenario2 ==
    (EngComputed /\ Existing0 = {<<600, 660>>} /\ eng.duration = 60)
    => /\ <<9, 30>> \notin Range(eng.candidates)
       /\ <<10, 0>> \notin Range(eng.candidates)
       /\ <<10, 30>> \notin Range(eng.candidates)
       /\ <<9, 0>> \in Range(eng.candidates)
       /\ <<11, 0>> \in Range(eng.candidates)

C5_Witness ==
    /\ eng.phase = "computed" /\ Existing0 = {<<600, 660>>} /\ eng.duration = 60
    /\ Len(eng.candidates) = 22

\* C6: over an empty store the list holds every grid start t with
\* open <= t <= close - duration, for every multiple of 30 minutes.
C6_EmptyStoreFullGrid ==
    (EngComputed /\ eng.store0 = {})
    => Range(eng.candidates) =
          {AsTime(t) : t \in {g \in GridStarts : g + eng.duration <= 1320}}

\* C7: window 09:00-22:00, step 30, duration 60, empty store: the list is
\* 09:00, 09:30, ..., 21:00, 25 entries, the last one ending at 22:00.
C7_Scenario1 ==
    (EngComputed /\ eng.store0 = {} /\ eng.duration = 60)
    => /\ Len(eng.candidates) = 25
       /\ \A k \in 1..25 : eng.candidates[k] = AsTime(540 + 30 * (k - 1))
       /\ eng.candidates[1] = <<9, 0>>
       /\ eng.candidates[25] = <<21, 0>>
       /\ eng.candidates[25][1] * 60 + eng.candidates[25][2] + 60 = 1320

C7_Witness ==
    eng.phase = "computed" /\ eng.store0 = {} /\ eng.duration = 60
    /\ Len(eng.candidates) = 25

\* C8: a request that only touches existing reservations (its start is the
\* end of one, or its end the start of one) is accepted, and such a start
\* time stays in the candidate list.
Touches(t, te, ivs) == \E iv \in ivs : iv[2] = t \/ iv[1] = te
Apart(t, te, ivs) == \A iv \in ivs : iv[2] <= t \/ iv[1] >= te

C8_TouchingAccepted ==
    /\ (/\ EngAnswered /\ EngInWindow
        /\ Touches(EngStart, EngEnd, Existing0)
        /\ Apart(EngStart, EngEnd, Existing0))
       => (EngReq.outcome = "ok" /\ EngReq.record \in db)
    /\ EngComputed =>
          \A t \in LoopStarts(eng.duration) :
              (/\ Touches(t, t + eng.duration, Existing0)
               /\ Apart(t, t + eng.duration, Existing0))
              => AsTime(t) \in Range(eng.candidates)

\* a request between two reservations, touching both, was accepted
C8_Witness ==
    /\ EngAnswered /\ EngReq.outcome = "ok"
    /\ (\E iv \in Existing0 : iv[2] = EngStart)
    /\ (\E iv \in Existing0 : iv[1] = EngEnd)
    /\ EngReq.payload.startTime \in Range(eng.candidates)

\* C9: no candidate starts before 09:00 or ends after 22:00; a request for
\* such a start is rejected and stores nothing; a duration longer than the
\* window gives the empty list.
C9_WindowRespected ==
    /\ EngComputed =>
          /\ \A i \in 1..Len(eng.candidates) :
                /\ eng.candidates[i][1] * 60 + eng.candidates[i][2] >= 540
                /\ eng.candidates[i][1] * 60 + eng.candidates[i][2] + eng.duration <= 1320
          /\ (eng.duration > 1320 - 540) => eng.candidates = <<>>
    /\ (EngAnswered /\ ~EngInWindow) =>
          /\ EngReq.outcome \notin {"ok", "none"}
          /\ EngReq.record = NoRecord
          /\ db = eng.store0

C9_Witness ==
    /\ EngAnswered /\ EngStart = 1260 /\ eng.duration = 90
    /\ EngReq.outcome = "ValidationError"
    /\ eng.candidates # <<>>
    /\ db = eng.store0

\* C12: the candidate list is strictly increasing in start time, every entry
\* is a grid time 09:00 + 30k, the list is a sublist of the one the empty
\* store gives, and taking a reservation away never removes a candidate
\* (adding one never adds a candidate).
C12_OrderedOnGrid ==
    EngComputed =>
        /\ \A i \in 1..Len(eng.candidates) : \A j \in 1..Len(eng.candidates) :
              i < j => eng.candidates[i][1] * 60 + eng.candidates[i][2]
                         < eng.candidates[j][1] * 60 + eng.candidates[j][2]
        /\ \A i \in 1..Len(eng.candidates) :
              /\ eng.candidates[i][2] \in 0..59
              /\ \E k \in 0..26 :
                    eng.candidates[i][1] * 60 + eng.candidates[i][2] = 540 + 30 * k
        /\ Range(eng.candidates) \subseteq {AsTime(t) : t \in LoopStarts(eng.duration)}
        /\ Range(eng.candidates) \subseteq
              Range(buildSlotCandidates(<<>>, eng.duration))
        /\ \A r \in eng.store0 :
              Range(eng.candidates) \subseteq
                  Range(buildSlotCandidates(RowsOf(eng.store0 \ {r}, EngSession, EngDate),
                                            eng.duration))

\* two reservations leave a shorter, non-empty list
C12_Witness ==
    /\ eng.phase = "computed" /\ eng.duration = 60
    /\ Cardinality(Existing0) = 2
    /\ Len(eng.candidates) \in 2..24

----------------------------------------------------------------------------
(* The admission endpoints called directly by two concurrent clients,       *)
(* starting from an empty store; every answer is appended to the log.       *)

SCENARIO_STARTS == {600, 630, 660, 840}     \* 10:00, 10:30, 11:00, 14:00
SCENARIO_DURATIONS == {60}

InitBackend ==
    /\ db = {}
    /\ nextId = 1
    /\ req = [c \in Clients |-> IdleRequest]
    /\ eng = EngIdle
    /\ log = <<>>
    /\ PagesClosed

\* POST /api/user/reservations or POST /api/admin/reservations
DirectPost(c, sessionId, date, t, d) ==
    /\ req[c].state = "idle"
    /\ Len(log) + OpenCreates < MaxAdmissions
    /\ req' = [req EXCEPT ![c] =
                 [IdleRequest EXCEPT !.state = "sent",
                    !.payload = [sessionId |-> sessionId, date |-> date,
                                 startTime |-> minutesToTime(t), durationMin |-> d]]]
    /\ UNCHANGED <<db, nextId, eng, log, adminVars, userVars, extVars>>

LogEntry(c) == [client |-> c, payload |-> req'[c].payload, outcome |-> req'[c].outcome]

DirectAdmitRead(c) ==
    /\ AdmitRead(c)
    /\ log' = IF req'[c].state = "done" THEN Append(log, LogEntry(c)) ELSE log
    /\ UNCHANGED <<eng, adminVars, userVars, extVars>>

DirectAdmitWrite(c) ==
    /\ AdmitWrite(c)
    /\ log' = Append(log, LogEntry(c))
    /\ UNCHANGED <<eng, adminVars, userVars, extVars>>

\* the client takes the answer
DirectReceive(c) ==
    /\ req[c].state = "done"
    /\ req' = [req EXCEPT ![c] = IdleRequest]
    /\ UNCHANGED <<db, nextId, eng, log, adminVars, userVars, extVars>>

NextBackend ==
    \/ \E c \in Clients, sessionId \in SessionIds, date \in Dates,
          t \in SCENARIO_STARTS, d \in SCENARIO_DURATIONS :
            DirectPost(c, sessionId, date, t, d)
    \/ \E c \in Clients : DirectAdmitRead(c)
    \/ \E c \in Clients : DirectAdmitWrite(c)
    \/ \E c \in Clients : DirectReceive(c)

SpecBackend == InitBackend /\ [][NextBackend]_vars

----------------------------------------------------------------------------
(* Properties of admission, checked under SpecBackend *)

SlotOf(p) == <<p.startTime[1] * 60 + p.startTime[2],
               p.startTime[1] * 60 + p.startTime[2] + p.durationMin>>

RecordOverlapsRequest(r, p) ==
    /\ r.sessionId = p.sessionId /\ r.date = p.date /\ r.status # "CANCELLED"
    /\ r.startTime[1] * 60 + r.startTime[2] < SlotOf(p)[2]
    /\ r.endTime[1] * 60 + r.endTime[2] > SlotOf(p)[1]

\* both clients have asked for the same interval, both have their answer,
\* and nothing but these two requests has put a record on the interval
SameSlotRace(p) ==
    /\ req["admin"].state = "done" /\ req["user"].state = "done"
    /\ req["admin"].payload = p /\ req["user"].payload = p
    /\ \A r \in db : RecordOverlapsRequest(r, p) =>
                        r \in {req["admin"].record, req["user"].record}

\* C2: of two concurrent admission attempts for the identical interval
\* [14:00,15:00) on one session and date, whatever the order of their read
\* and write steps, exactly one succeeds and the other gets ConflictError.
C2_ExactlyOneWins ==
    \A sessionId \in SessionIds, date \in Dates :
        LET p == [sessionId |-> sessionId, date |-> date,
                  startTime |-> <<14, 0>>, durationMin |-> 60] IN
        SameSlotRace(p) =>
            \/ /\ req["admin"].outcome = "ok" /\ req["user"].outcome = "ConflictError"
               /\ req["admin"].record \in db
            \/ /\ req["user"].outcome = "ok" /\ req["admin"].outcome = "ConflictError"
               /\ req["user"].record \in db

\* the user's request was sent first and is still unread when the admin's
\* request takes the lock; the admin wins
C2_Witness ==
    /\ SameSlotRace([sessionId |-> 1, date |-> 1, startTime |-> <<14, 0>>,
                     durationMin |-> 60])
    /\ req["admin"].outcome = "ok" /\ req["user"].outcome = "ConflictError"
    /\ log[1].client = "admin" /\ Len(log) = 2

LogOn(sessionId, date) ==
    SelectSeq(log, LAMBDA e : e.payload.sessionId = sessionId /\ e.payload.date = date)

IsRequest(e, h, m, d) == e.payload.startTime = <<h, m>> /\ e.payload.durationMin = d

StoredIntervals(sessionId, date) ==
    {<<r.startTime, r.endTime>> :
        r \in {x \in db : x.sessionId = sessionId /\ x.date = date}}

\* C10: on an empty session and date, admitting 10:00-11:00 succeeds, then
\* 10:30-11:30 fails with ConflictError, then 11:00-12:00 succeeds, and the
\* two reservations 10:00-11:00 and 11:00-12:00 are what is stored.
C10_Scenario3 ==
    \A sessionId \in SessionIds, date \in Dates :
        LET L == LogOn(sessionId, date) IN
        /\ (Len(L) >= 1 /\ IsRequest(L[1], 10, 0, 60)) => L[1].outcome = "ok"
        /\ (Len(L) >= 2 /\ IsRequest(L[1], 10, 0, 60) /\ IsRequest(L[2], 10, 30, 60))
              => L[2].outcome = "ConflictError"
        /\ (Len(L) >= 3 /\ IsRequest(L[1], 10, 0, 60) /\ IsRequest(L[2], 10, 30, 60)
                        /\ IsRequest(L[3], 11, 0, 60))
              => /\ L[3].outcome = "ok"
                 /\ (Len(L) = 3 =>
                        StoredIntervals(sessionId, date) =
                            {<< <<10, 0>>, <<11, 0>> >>, << <<11, 0>>, <<12, 0>> >>})

C10_Witness ==
    /\ Len(log) = 3
    /\ \A i \in 1..3 : log[i].payload.sessionId = 1 /\ log[i].payload.date = 1
    /\ IsRequest(log[1], 10, 0, 60) /\ log[1].outcome = "ok"
    /\ IsRequest(log[2], 10, 30, 60) /\ log[2].outcome = "ConflictError"
    /\ IsRequest(log[3], 11, 0, 60) /\ log[3].outcome = "ok"
    /\ Cardinality(db) = 2

----------------------------------------------------------------------------
(* The list endpoints of the store (design spec 4.1 and 6) *)

\* computeCandidates: grid starts up to the late cutoff whose end stays in
\* the window and that overlap no occupied interval, earliest first
RECURSIVE CandidateLoop(_, _, _)
CandidateLoop(t, existing, durationMin) ==
    IF t > LAST_START THEN <<>>
    ELSE LET rest == CandidateLoop(t + SLOT_STEP, existing, durationMin) IN
         IF /\ t + durationMin <= WINDOW_CLOSE
            /\ ~\E iv \in existing : ~(t + durationMin <= iv[1] \/ t >= iv[2])
         THEN <<minutesToTime(t)>> \o rest
         ELSE rest

computeCandidates(existing, durationMin) == CandidateLoop(WINDOW_OPEN, existing, durationMin)

\* GET /api/admin/sessions?date=
AdminSessionsResponse(store, date) ==
    [i \in 1..NumSessions |-> [sessionId |-> i, reservations |-> RowsOf(store, i, date)]]

\* GET /api/user/sessions?date=&durationMin=
UserSessionsResponse(store, date, durationMin) ==
    [i \in 1..NumSessions |->
        [id |-> i, slots |-> computeCandidates(OccupiedIntervals(store, i, date), durationMin)]]

\* GET /api/user/reservations: the ids of the user's own reservations
UserReservationsResponse(store) == {r.id : r \in {x \in store : x.source = "user"}}

\* DELETE /api/admin/reservations/{id}
DeleteRecord_UsersOnly(store, id) == {r \in store : r.id # id \/ r.source # "user"}

DeleteRecord_WholeSession(store, id) ==
    {r \in store : \A x \in store : x.id = id => r.sessionId # x.sessionId}

DeleteRecord(store, id) == {r \in store : r.id # id}

----------------------------------------------------------------------------
(* The endpoints called directly on a store whose rows have any status and  *)
(* any source: one row query, admission requests (well-formed or not), and  *)
(* one delete, sent when no admission is in flight.                         *)

STORE_STARTS == {600, 660}                  \* 10:00, 11:00
ROW_STATUSES == {"CONFIRMED", "CANCELLED"}

StoreIntervals == {<<s, s + l>> : s \in STORE_STARTS, l \in EXISTING_LENGTHS}

\* the rows of S on the engine's session, ids by start order
StoreWith(S, st, so) ==
    {[id |-> Cardinality({j \in S : IntervalBefore(j, iv)}) + 1,
      sessionId |-> EngSession, date |-> EngDate,
      startTime |-> minutesToTime(iv[1]), endTime |-> minutesToTime(iv[2]),
      status |-> st[iv], source |-> so[iv]] : iv \in S}

\* <<sessionId, date, start, durationMin>> of the requests sent: two
\* well-formed ones, then an unknown session, a date out of range and a
\* duration off the granularity, each over the 10:00 reservation
STORE_POSTS ==
    {<<EngSession, EngDate, 600, 60>>, <<EngSession, EngDate, 630, 60>>,
     <<NumSessions + 1, EngDate, 600, 60>>, <<EngSession, NumDates + 1, 600, 60>>,
     <<EngSession, EngDate, 600, 45>>}

InitStore ==
    /\ \E S \in SetsUpTo(StoreIntervals, MaxExisting) :
       \E st \in [S -> ROW_STATUSES], so \in [S -> Clients] :
          /\ db = StoreWith(S, st, so)
          /\ nextId = Cardinality(S) + 1
          /\ eng = [phase |-> "start", duration |-> 0, candidates |-> <<>>,
                    store0 |-> StoreWith(S, st, so)]
    /\ req = [c \in Clients |-> IdleRequest]
    /\ log = <<>>
    /\ PagesClosed

\* the admin page's add form over the rows of GET /api/admin/sessions
StoreQuery(d) ==
    /\ eng.phase = "start"
    /\ eng' = [phase |-> "computed", duration |-> d,
               candidates |-> buildSlotCandidates(RowsOf(db, EngSession, EngDate), d),
               store0 |-> db]
    /\ UNCHANGED <<db, nextId, req, log, adminVars, userVars, extVars>>

\* DELETE /api/admin/reservations/{id}; eng.store0 keeps the store as it was
DirectDelete(id) ==
    /\ del.state = "idle"
    /\ \A c \in Clients : req[c].state = "idle"
    /\ eng' = [eng EXCEPT !.phase = "deleted", !.store0 = db]
    /\ IF \E r \in db : r.id = id
       THEN /\ db' = DeleteRecord(db, id)
            /\ del' = [state |-> "done", id |-> id,
                       sessionId |-> (CHOOSE r \in db : r.id = id).sessionId,
                       outcome |-> "ok"]
       ELSE /\ db' = db
            /\ del' = [state |-> "done", id |-> id, sessionId |-> 0,
                       outcome |-> "NotFoundError"]
    /\ UNCHANGED <<nextId, req, log, aSessions, aFetch, aLoading, addSessionId,
                   addDuration, addStartTime, aError, userVars, extVars>>

NextStore ==
    \/ \E d \in SCENARIO_DURATIONS : StoreQuery(d)
    \/ \E p \in STORE_POSTS : DirectPost("user", p[1], p[2], p[3], p[4])
    \/ \E c \in Clients : DirectAdmitRead(c)
    \/ \E c \in Clients : DirectAdmitWrite(c)
    \/ \E c \in Clients : DirectReceive(c)
    \/ \E id \in 1..(MaxExisting + 1) : DirectDelete(id)

SpecStore == InitStore /\ [][NextStore]_vars

----------------------------------------------------------------------------
(* Properties of the store with rows of any status, checked under SpecStore *)

\* the intervals of the rows a query found that are not cancelled
LiveIntervals0 == {<<r.startTime[1] * 60 + r.startTime[2], r.endTime[1] * 60 + r.endTime[2]>> :
                      r \in {x \in eng.store0 : x.status # "CANCELLED"}}

\* C11: a row with status CANCELLED takes no start time out of the list the
\* admin page's add form builds from the session's rows (the list is the one
\* the rows that are not cancelled give), and it rejects no admission.
C11_CancelledIgnored ==
    /\ eng.phase = "computed" =>
          Range(eng.candidates) =
              {AsTime(t) : t \in {g \in LoopStarts(eng.duration) :
                  \A iv \in LiveIntervals0 : g + eng.duration <= iv[1] \/ g >= iv[2]}}
    /\ \A c \in Clients :
          (req[c].state = "done" /\ req[c].outcome = "ConflictError")
          => \E r \in db : RecordOverlapsRequest(r, req[c].payload)

Malformed(p) ==
    \/ p.durationMin % 30 # 0
    \/ p.sessionId \notin 1..NumSessions
    \/ p.date \notin 1..NumDates

\* C15: an admission request whose duration is not a multiple of 30, whose
\* sessionId is unknown or whose date is out of range is answered with
\* ValidationError, never with ConflictError, also when its interval overlaps
\* a stored reservation; it is answered in one step from its arrival, without
\* the occupied intervals being read, and the store is unchanged.
C15_ValidationFirst ==
    [][\A c \in Clients :
          /\ (req'[c].state = "done" /\ Malformed(req'[c].payload)) =>
                /\ req'[c].outcome = "ValidationError"
                /\ req'[c].record = NoRecord
          /\ (req[c].state = "sent" /\ Malformed(req[c].payload)
                                    /\ req'[c] # req[c]) =>
                /\ req'[c].state = "done"
                /\ req'[c].outcome = "ValidationError"
                /\ req'[c].seen = {}
                /\ db' = db /\ nextId' = nextId]_vars

\* a 45-minute request over a live 10:00-11:00 reservation got ValidationError
C15_Witness ==
    /\ req["user"].state = "done" /\ req["user"].outcome = "ValidationError"
    /\ req["user"].payload.durationMin = 45
    /\ \E r \in db : /\ r.status = "CONFIRMED"
                     /\ r.sessionId = req["user"].payload.sessionId
                     /\ r.date = req["user"].payload.date
                     /\ r.startTime = req["user"].payload.startTime
    /\ db = eng.store0

\* the record a delete was sent for, when the store held it
DeletedRows == {r \in eng.store0 : r.id = del.id}

\* C16: a delete of an id the store holds removes exactly that record,
\* whatever its status and source, and a later request for the record's
\* interval on its session and date is admitted when nothing else overlaps
\* it; a delete of an id the store does not hold answers NotFoundError and
\* leaves the store as it was.
C16_DeleteUnconditional ==
    eng.phase = "deleted" =>
        /\ del.outcome \in {"ok", "NotFoundError"}
        /\ (del.outcome = "ok") <=> (DeletedRows # {})
        /\ del.outcome = "ok" =>
              /\ db \cap eng.store0 = eng.store0 \ DeletedRows
              /\ \A x \in db : x.id # del.id
              /\ \A c \in Clients : \A r \in DeletedRows :
                    (/\ req[c].state = "done"
                     /\ req[c].payload.sessionId = r.sessionId
                     /\ req[c].payload.date = r.date
                     /\ req[c].payload.startTime = r.startTime
                     /\ SlotOf(req[c].payload)[2] = r.endTime[1] * 60 + r.endTime[2]
                     /\ \A x \in db \ {req[c].record} :
                           ~RecordOverlapsRequest(x, req[c].payload))
                    => /\ req[c].outcome = "ok"
                       /\ req[c].record \in db
        /\ del.outcome = "NotFoundError" =>
              /\ eng.store0 \subseteq db
              /\ \A x \in eng.store0 : x.id # del.id

\* a live admin block was deleted and its interval then booked again
C16_Witness ==
    /\ eng.phase = "deleted" /\ del.outcome = "ok"
    /\ \E r \in DeletedRows :
          /\ r.status = "CONFIRMED" /\ r.source = "admin"
          /\ req["user"].state = "done" /\ req["user"].outcome = "ok"
          /\ req["user"].record.startTime = r.startTime
          /\ req["user"].record.endTime = r.endTime
          /\ req["user"].record \in db
    /\ Cardinality(eng.store0) = 2

\* C17: no step changes a stored record in place: the store stays as it
\* is, or gains exactly one record with a fresh id (the one the admitted
\* request asked for), or loses exactly the record a delete named; a
\* candidate query leaves the store as it is.
C17_Frame ==
    [][/\ \/ db' = db
          \/ \E r \in db' \ db :
                /\ db' = db \cup {r}
                /\ r.id = nextId /\ nextId' = nextId + 1
                /\ \A x \in db : x.id # r.id
                /\ \E c \in Clients :
                      /\ req'[c].outcome = "ok" /\ req'[c].record = r
                      /\ r.sessionId = req[c].payload.sessionId
                      /\ r.date = req[c].payload.date
                      /\ r.startTime = req[c].payload.startTime
                      /\ r.endTime[1] * 60 + r.endTime[2] = SlotOf(req[c].payload)[2]
          \/ \E r \in db : db' = db \ {r} /\ del'.id = r.id /\ del'.outcome = "ok"
       /\ (eng'.phase = "computed" /\ eng.phase # "computed") => db' = db]_vars

\* one record was deleted, another admitted, and the third is as it was
C17_Witness ==
    /\ eng.phase = "deleted" /\ del.outcome = "ok"
    /\ Cardinality(eng.store0) = 2
    /\ Cardinality(db) = 2
    /\ \E r \in db : r.id > 2 /\ r.source = "user"
    /\ \E r \in db : r \in eng.store0

----------------------------------------------------------------------------
(* Both pages open on one date, against one store *)

CHOICE_STARTS == {<<10, 30>>}
USER_DURATIONS == {60, 120}

FirstOr(list) == IF list = <<>> THEN NoTime ELSE list[1]

RemoveAt(seq, i) == SubSeq(seq, 1, i - 1) \o SubSeq(seq, i + 1, Len(seq))

\* AdminPage: availableForAdd
availableForAdd(sessions, sessionId, durationMin) ==
    IF \E i \in 1..Len(sessions) : sessions[i].sessionId = sessionId
    THEN LET i == CHOOSE k \in 1..Len(sessions) :
                     /\ sessions[k].sessionId = sessionId
                     /\ \A j \in 1..(k - 1) : sessions[j].sessionId # sessionId
         IN  buildSlotCandidates(sessions[i].reservations, durationMin)
    ELSE <<>>

\* AdminPage: the effect on availableForAdd
AddStartTimeEffect_Stale(sessions, sessionId, durationMin) == <<9, 0>>

AddStartTimeEffect(sessions, sessionId, durationMin) ==
    FirstOr(availableForAdd(sessions, sessionId, durationMin))

\* UserFront: selectedSession and availableSlots
availableSlots(sessions, selected) ==
    IF sessions = <<>> THEN <<>>
    ELSE IF \E i \in 1..Len(sessions) : sessions[i].id = selected
         THEN sessions[CHOOSE i \in 1..Len(sessions) : sessions[i].id = selected].slots
         ELSE sessions[1].slots

\* UserFront: the effect on availableSlots and startTime
StartTimeEffect(sessions, selected, st) ==
    IF st \in Range(availableSlots(sessions, selected)) THEN st
    ELSE FirstOr(availableSlots(sessions, selected))

FetchFor(origin, d, effect) ==
    [origin |-> origin, date |-> d, effect |-> effect,
     served |-> FALSE, sessions |-> <<>>]

NewFetch(origin) == FetchFor(origin, aDate, aEffect)
NewRefresh(selected, durationMin, origin) ==
    [sel |-> selected, dur |-> durationMin, origin |-> origin,
     served |-> FALSE, failed |-> FALSE, sessions |-> <<>>]
NewMine(origin) == [state |-> "sent", origin |-> origin, rows |-> {}]

\* both pages are mounted with a token: each has its first queries in flight
Init ==
    /\ db = {}
    /\ nextId = 1
    /\ req = [c \in Clients |-> IdleRequest]
    /\ eng = EngIdle
    /\ log = <<>>
    /\ del = IdleDelete
    /\ aSessions = <<>>
    /\ aFetch = <<FetchFor("timer", Today, 1)>>
    /\ aLoading = TRUE
    /\ addSessionId = 1
    /\ addDuration = 60
    /\ addStartTime = NoTime
    /\ aError = ""
    /\ uSessions = <<>>
    /\ uRefresh = <<NewRefresh(0, 60, "effect")>>
    /\ uLoading = TRUE
    /\ uCreate = "idle"
    /\ selectedSessionId = 0
    /\ startTime = NoTime
    /\ duration = 60
    /\ uError = ""
    /\ uMine = NewMine("effect")
    /\ myReservations = {}
    /\ AdminMounted /\ RestIdle

\* requests a page has sent and not yet taken the answer of
AdminInFlight ==
    Len(aFetch) + (IF req["admin"].state = "idle" THEN 0 ELSE 1)
                + (IF del.state = "idle" THEN 0 ELSE 1)

UserInFlight ==
    Len(uRefresh) + (IF req["user"].state = "idle" THEN 0 ELSE 1)
                  + (IF uMine.state = "idle" THEN 0 ELSE 1)

\* a page that has never been mounted
AdminClosed == aSessions = <<>> /\ aFetch = <<>>
UserClosed == uSessions = <<>> /\ uRefresh = <<>> /\ uMine = IdleMine

\* requests a page may have in flight: one more when it is the only page open
AdminLimit == IF UserClosed THEN MaxInFlight + 1 ELSE MaxInFlight
UserLimit == IF AdminClosed THEN MaxInFlight + 1 ELSE MaxInFlight

(* ---- the store ---- *)

StoreAdmitRead(c) == AdmitRead(c) /\ UNCHANGED <<eng, log, adminVars, userVars, extVars>>

StoreAdmitWrite(c) == AdmitWrite(c) /\ UNCHANGED <<eng, log, adminVars, userVars, extVars>>

StoreDelete ==
    /\ del.state = "sent"
    /\ IF \E r \in db : r.id = del.id
       THEN /\ db' = DeleteRecord(db, del.id)
            /\ del' = [del EXCEPT !.state = "done", !.outcome = "ok"]
       ELSE /\ db' = db
            /\ del' = [del EXCEPT !.state = "done", !.outcome = "NotFoundError"]
    /\ UNCHANGED <<nextId, req, eng, log, aSessions, aFetch, aLoading,
                   addSessionId, addDuration, addStartTime, aError, userVars, extVars>>

StoreAdminSessions(i) ==
    /\ i \in 1..Len(aFetch) /\ ~aFetch[i].served
    /\ aFetch' = [aFetch EXCEPT ![i].served = TRUE,
                     ![i].sessions = AdminSessionsResponse(db, aFetch[i].date)]
    /\ UNCHANGED <<storeVars, del, aSessions, aLoading, addSessionId, addDuration,
                   addStartTime, aError, userVars, extVars>>

StoreUserSessions(i) ==
    /\ i \in 1..Len(uRefresh) /\ ~uRefresh[i].served
    /\ uRefresh' = [uRefresh EXCEPT ![i].served = TRUE,
                       ![i].sessions = UserSessionsResponse(db, Today, uRefresh[i].dur)]
    /\ UNCHANGED <<storeVars, adminVars, uSessions, uLoading, uCreate,
                   selectedSessionId, startTime, duration, uError, uMine,
                   myReservations, extVars>>

\* GET /api/user/sessions answered with an error status, or not at all
StoreUserSessionsFail(i) ==
    /\ i \in 1..Len(uRefresh) /\ ~uRefresh[i].served
    /\ uRefresh' = [uRefresh EXCEPT ![i].served = TRUE, ![i].failed = TRUE]
    /\ UNCHANGED <<storeVars, adminVars, uSessions, uLoading, uCreate,
                   selectedSessionId, startTime, duration, uError, uMine,
                   myReservations, extVars>>

StoreMyReservations ==
    /\ uMine.state = "sent"
    /\ uMine' = [uMine EXCEPT !.state = "served", !.rows = UserReservationsResponse(db)]
    /\ UNCHANGED <<storeVars, adminVars, uSessions, uRefresh, uLoading, uCreate,
                   selectedSessionId, startTime, duration, uError, myReservations, extVars>>

(* ---- AdminPage ---- *)

\* fetchSessions, run by the 30 second timer
AdminTimerFetch ==
    /\ \E t \in aTimers : t.effect = aEffect
    /\ AdminInFlight < AdminLimit
    /\ aFetch' = Append(aFetch, NewFetch("timer"))
    /\ aLoading' = TRUE
    /\ aError' = ""
    /\ UNCHANGED <<storeVars, del, aSessions, addSessionId, addDuration,
                   addStartTime, userVars, extVars>>

\* handleRefresh; the button is disabled while loading
AdminHandleRefresh ==
    /\ ~aLoading
    /\ token # 0
    /\ AdminInFlight < AdminLimit
    /\ aFetch' = Append(aFetch, NewFetch("button"))
    /\ aLoading' = TRUE
    /\ UNCHANGED <<storeVars, del, aSessions, addSessionId, addDuration,
                   addStartTime, aError, userVars, extVars>>

\* the answer of a list query: setSessions, setLoading(false), then the
\* start-time effect; handleRefresh also clears the error
\* fetchSessions returns at "if (cancelled) return" when its effect run has
\* been cleaned up; handleRefresh has no such test
Cancelled(f) == aEffect = 0 \/ (f.origin # "button" /\ f.effect # aEffect)

AdminFetchDone(i) ==
    /\ i \in 1..Len(aFetch) /\ aFetch[i].served
    /\ aFetch' = RemoveAt(aFetch, i)
    /\ IF Cancelled(aFetch[i])
       THEN UNCHANGED <<aSessions, aLoading, aError, addStartTime, aSessionsDate>>
       ELSE /\ aSessions' = aFetch[i].sessions
            /\ aSessionsDate' = aFetch[i].date
            /\ aLoading' = FALSE
            /\ aError' = IF aFetch[i].origin = "button" THEN "" ELSE aError
            /\ addStartTime' = AddStartTimeEffect(aSessions', addSessionId, addDuration)
    /\ UNCHANGED <<storeVars, del, addSessionId, addDuration, userVars,
                   timerVars, restVars>>

AdminSetAddSessionId(sessionId) ==
    /\ sessionId # addSessionId
    /\ addSessionId' = sessionId
    /\ addStartTime' = AddStartTimeEffect(aSessions, sessionId, addDuration)
    /\ UNCHANGED <<storeVars, del, aSessions, aFetch, aLoading, addDuration,
                   aError, userVars, extVars>>

\* the duration select of the add form, then the start-time effect
ADMIN_DURATIONS == {60, 120}

AdminSetAddDuration(d) ==
    /\ d # addDuration
    /\ addDuration' = d
    /\ addStartTime' = AddStartTimeEffect(aSessions, addSessionId, d)
    /\ UNCHANGED <<storeVars, del, aSessions, aFetch, aLoading, addSessionId,
                   aError, userVars, extVars>>

\* the start-time select offers availableForAdd
AdminSetAddStartTime(t) ==
    /\ t # addStartTime
    /\ t \in Range(availableForAdd(aSessions, addSessionId, addDuration))
    /\ addStartTime' = t
    /\ UNCHANGED <<storeVars, del, aSessions, aFetch, aLoading, addSessionId,
                   addDuration, aError, userVars, extVars>>

\* handleCreateReservation up to the POST; the button is disabled while
\* creating or when availableForAdd is empty
AdminCreateReservation ==
    /\ req["admin"].state = "idle"
    /\ token # 0
    /\ AdminInFlight < AdminLimit
    /\ nextId + OpenCreates <= MaxId
    /\ addStartTime # NoTime
    /\ availableForAdd(aSessions, addSessionId, addDuration) # <<>>
    /\ req' = [req EXCEPT !["admin"] =
                 [IdleRequest EXCEPT !.state = "sent",
                    !.payload = [sessionId |-> addSessionId, date |-> aDate,
                                 startTime |-> addStartTime,
                                 durationMin |-> addDuration]]]
    /\ aError' = ""
    /\ UNCHANGED <<db, nextId, eng, log, del, aSessions, aFetch, aLoading,
                   addSessionId, addDuration, addStartTime, userVars, extVars>>

InsertCreated(sessions, created) ==
    [i \in 1..Len(sessions) |->
        IF sessions[i].sessionId = created.sessionId
        THEN [sessions[i] EXCEPT
                !.reservations = insertReservationSorted(sessions[i].reservations, created)]
        ELSE sessions[i]]

\* handleCreateReservation from the answer on: the record goes into its
\* session's rows, or the error message is kept; nothing is sent
AdminCreateDone_Retry ==
    /\ req["admin"].state = "done"
    /\ req' = [req EXCEPT !["admin"] =
                 IF req["admin"].outcome = "ConflictError"
                 THEN [IdleRequest EXCEPT !.state = "sent",
                                          !.payload = req["admin"].payload]
                 ELSE IdleRequest]
    /\ IF req["admin"].outcome = "ok"
       THEN /\ aSessions' = InsertCreated(aSessions, req["admin"].record)
            /\ addStartTime' = AddStartTimeEffect(aSessions', addSessionId, addDuration)
            /\ aError' = aError
       ELSE /\ aError' = req["admin"].outcome
            /\ UNCHANGED <<aSessions, addStartTime>>
    /\ UNCHANGED <<db, nextId, eng, log, del, aFetch, aLoading, addSessionId,
                   addDuration, userVars, extVars>>

AdminCreateDone ==
    /\ req["admin"].state = "done"
    /\ req' = [req EXCEPT !["admin"] = IdleRequest]
    /\ IF req["admin"].outcome = "ok"
       THEN /\ aSessions' = InsertCreated(aSessions, req["admin"].record)
            /\ addStartTime' = AddStartTimeEffect(aSessions', addSessionId, addDuration)
            /\ aError' = aError
       ELSE /\ aError' = req["admin"].outcome
            /\ UNCHANGED <<aSessions, addStartTime>>
    /\ UNCHANGED <<db, nextId, eng, log, del, aFetch, aLoading, addSessionId,
                   addDuration, userVars, extVars>>

\* handleDeleteReservation up to the DELETE, for a row the page shows; the
\* row's button is disabled while loading
AdminDeleteReservation(i, k) ==
    /\ ~aLoading
    /\ del.state = "idle"
    /\ AdminInFlight < AdminLimit
    /\ i \in 1..Len(aSessions)
    /\ k \in 1..Len(aSessions[i].reservations)
    /\ del' = [state |-> "sent", id |-> aSessions[i].reservations[k].id,
               sessionId |-> aSessions[i].sessionId, outcome |-> "none"]
    /\ aError' = ""
    /\ UNCHANGED <<storeVars, aSessions, aFetch, aLoading, addSessionId,
                   addDuration, addStartTime, userVars, extVars>>

RemoveRow(sessions, sessionId, id) ==
    [i \in 1..Len(sessions) |->
        IF sessions[i].sessionId = sessionId
        THEN [sessions[i] EXCEPT
                !.reservations = SelectSeq(sessions[i].reservations,
                                           LAMBDA row : row.id # id)]
        ELSE sessions[i]]

\* handleDeleteReservation from the answer on
AdminDeleteDone ==
    /\ del.state = "done"
    /\ del' = IdleDelete
    /\ IF del.outcome = "ok"
       THEN /\ aSessions' = RemoveRow(aSessions, del.sessionId, del.id)
            /\ addStartTime' = AddStartTimeEffect(aSessions', addSessionId, addDuration)
            /\ aError' = aError
       ELSE /\ aError' = del.outcome
            /\ UNCHANGED <<aSessions, addStartTime>>
    /\ UNCHANGED <<storeVars, aFetch, aLoading, addSessionId, addDuration, userVars, extVars>>

(* ---- UserFront ---- *)

\* the session select; the new refreshSessions runs from its effect, and the
\* start-time effect follows the new availableSlots
UserSetSelectedSession(i) ==
    /\ i \in 1..Len(uSessions)
    /\ uSessions[i].id # selectedSessionId
    /\ UserInFlight < UserLimit
    /\ selectedSessionId' = uSessions[i].id
    /\ startTime' = StartTimeEffect(uSessions, uSessions[i].id, startTime)
    /\ uRefresh' = Append(uRefresh, NewRefresh(uSessions[i].id, duration, "effect"))
    /\ uLoading' = TRUE
    /\ uError' = ""
    /\ UNCHANGED <<storeVars, adminVars, uSessions, uCreate, duration, uMine,
                   myReservations, extVars>>

\* the duration select; the new refreshSessions runs from its effect
UserSetDuration(d) ==
    /\ d # duration
    /\ UserInFlight < UserLimit
    /\ duration' = d
    /\ uRefresh' = Append(uRefresh, NewRefresh(selectedSessionId, d, "effect"))
    /\ uLoading' = TRUE
    /\ uError' = ""
    /\ UNCHANGED <<storeVars, adminVars, uSessions, uCreate, selectedSessionId,
                   startTime, uMine, myReservations, extVars>>

\* the start-time select offers availableSlots
UserSetStartTime(t) ==
    /\ t \in Range(availableSlots(uSessions, selectedSessionId))
    /\ t # startTime
    /\ startTime' = t
    /\ UNCHANGED <<storeVars, adminVars, uSessions, uRefresh, uLoading, uCreate,
                   selectedSessionId, duration, uError, uMine, myReservations, extVars>>

DefaultSession(sessions, selected) ==
    IF \E i \in 1..Len(sessions) : sessions[i].id = selected
    THEN sessions[CHOOSE i \in 1..Len(sessions) : sessions[i].id = selected]
    ELSE sessions[1]

\* handleCreateReservation after its refreshSessions has returned:
\* refreshSessions catches its own errors, so refreshMyReservations is next
NextCreateStep_Rethrow(origin, failed) ==
    IF origin = "create" THEN (IF failed THEN "idle" ELSE "mine") ELSE uCreate

NextCreateStep(origin, failed) ==
    IF origin = "create" THEN "mine" ELSE uCreate

\* refreshSessions from the answer on: setSessions, the default session and
\* its first slot, or the error message; setLoading(false); then the
\* effects.  A call made by handleCreateReservation hands over to
\* refreshMyReservations.
UserRefreshDone(i) ==
    /\ i \in 1..Len(uRefresh) /\ uRefresh[i].served
    /\ LET r == uRefresh[i]
           newSel == IF r.sessions = <<>> THEN 0 ELSE DefaultSession(r.sessions, r.sel).id
           first == IF r.sessions = <<>> THEN NoTime
                    ELSE FirstOr(DefaultSession(r.sessions, r.sel).slots)
       IN  /\ IF r.failed
              THEN /\ uError' = "RequestFailed"
                   /\ uRefresh' = RemoveAt(uRefresh, i)
                   /\ uLoading' = FALSE
                   /\ UNCHANGED <<uSessions, selectedSessionId, startTime>>
              ELSE /\ uSessions' = r.sessions
                   /\ selectedSessionId' = newSel
                   /\ startTime' = StartTimeEffect(r.sessions, newSel, first)
                   /\ IF newSel # selectedSessionId
                      THEN /\ uRefresh' = Append(RemoveAt(uRefresh, i),
                                                 NewRefresh(newSel, duration, "effect"))
                           /\ uLoading' = TRUE
                           /\ uError' = ""
                      ELSE /\ uRefresh' = RemoveAt(uRefresh, i)
                           /\ uLoading' = FALSE
                           /\ uError' = uError
           /\ uCreate' = NextCreateStep(r.origin, r.failed)
           /\ uMine' = IF uCreate' = "mine" /\ uCreate # "mine"
                       THEN NewMine("create") ELSE uMine
    /\ UNCHANGED <<storeVars, adminVars, duration, myReservations, extVars>>

\* handleCreateReservation up to the POST; the button is disabled while
\* loading, without a start time or without slots
UserCreateReservation ==
    /\ ~uLoading
    /\ uCreate = "idle"
    /\ req["user"].state = "idle"
    /\ uMine.state = "idle"
    /\ UserInFlight < UserLimit
    /\ uSessions # <<>>
    /\ startTime # NoTime
    /\ availableSlots(uSessions, selectedSessionId) # <<>>
    /\ nextId + OpenCreates <= MaxId
    /\ req' = [req EXCEPT !["user"] =
                 [IdleRequest EXCEPT !.state = "sent",
                    !.payload = [sessionId |-> DefaultSession(uSessions, selectedSessionId).id,
                                 date |-> Today,
                                 startTime |-> startTime,
                                 durationMin |-> duration]]]
    /\ uLoading' = TRUE
    /\ uCreate' = "posting"
    /\ uError' = ""
    /\ UNCHANGED <<db, nextId, eng, log, adminVars, uSessions, uRefresh,
                   selectedSessionId, startTime, duration, uMine, myReservations, extVars>>

\* handleCreateReservation from the answer on: on success refreshSessions is
\* called with the session and duration of the request; on failure the
\* error message is kept and the handler ends
UserCreateDone ==
    /\ uCreate = "posting"
    /\ req["user"].state = "done"
    /\ req' = [req EXCEPT !["user"] = IdleRequest]
    /\ IF req["user"].outcome = "ok"
       THEN /\ UserInFlight <= UserLimit
            /\ uRefresh' = Append(uRefresh,
                                  NewRefresh(req["user"].payload.sessionId,
                                             req["user"].payload.durationMin, "create"))
            /\ uLoading' = TRUE
            /\ uCreate' = "refreshing"
            /\ uError' = ""
       ELSE /\ uRefresh' = uRefresh
            /\ uLoading' = FALSE
            /\ uCreate' = "idle"
            /\ uError' = req["user"].outcome
    /\ UNCHANGED <<db, nextId, eng, log, adminVars, uSessions, selectedSessionId,
                   startTime, duration, uMine, myReservations, extVars>>

\* refreshMyReservations, called by the mount effect, from the answer on
UserMineDone ==
    /\ uMine.state = "served" /\ uMine.origin = "effect"
    /\ myReservations' = uMine.rows
    /\ uMine' = IdleMine
    /\ UNCHANGED <<storeVars, adminVars, uSessions, uRefresh, uLoading, uCreate,
                   selectedSessionId, startTime, duration, uError, extVars>>

\* handleCreateReservation: refreshMyReservations has returned, setLoading(false)
UserCreateFinish ==
    /\ uCreate = "mine"
    /\ uMine.state = "served" /\ uMine.origin = "create"
    /\ myReservations' = uMine.rows
    /\ uMine' = IdleMine
    /\ uCreate' = "idle"
    /\ uLoading' = FALSE
    /\ UNCHANGED <<storeVars, adminVars, uSessions, uRefresh, selectedSessionId,
                   startTime, duration, uError, extVars>>

Next ==
    \/ \E c \in Clients : StoreAdmitRead(c)
    \/ \E c \in Clients : StoreAdmitWrite(c)
    \/ StoreDelete
    \/ \E i \in 1..MaxInFlight : StoreAdminSessions(i)
    \/ \E i \in 1..MaxInFlight : StoreUserSessions(i)
    \/ StoreMyReservations
    \/ AdminTimerFetch
    \/ AdminHandleRefresh
    \/ \E i \in 1..MaxInFlight : AdminFetchDone(i)
    \/ \E sessionId \in SessionIds : AdminSetAddSessionId(sessionId)
    \/ \E t \in CHOICE_STARTS : AdminSetAddStartTime(t)
    \/ AdminCreateReservation
    \/ AdminCreateDone
    \/ \E i \in SessionIds, k \in 1..MaxId : AdminDeleteReservation(i, k)
    \/ AdminDeleteDone
    \/ \E i \in SessionIds : UserSetSelectedSession(i)
    \/ \E t \in CHOICE_STARTS : UserSetStartTime(t)
    \/ \E i \in 1..MaxInFlight : UserRefreshDone(i)
    \/ UserCreateReservation
    \/ UserCreateDone
    \/ UserMineDone
    \/ UserCreateFinish

Spec == Init /\ [][Next]_vars

----------------------------------------------------------------------------
(* Properties of the whole system, checked under Spec *)

RecordMinutes(r) == <<r.startTime[1] * 60 + r.startTime[2], r.endTime[1] * 60 + r.endTime[2]>>

\* C1: for every (sessionId, date), no two stored reservations that are not
\* cancelled have overlapping half-open intervals, whatever the interleaving
\* of user admissions, admin-block admissions and deletions, and also when a
\* page admits from a candidate list that has gone stale.
C1_NoOverlap ==
    \A a \in db : \A b \in db :
        (/\ a # b
         /\ a.sessionId = b.sessionId /\ a.date = b.date
         /\ a.status # "CANCELLED" /\ b.status # "CANCELLED")
        => \/ RecordMinutes(a)[2] <= RecordMinutes(b)[1]
           \/ RecordMinutes(b)[2] <= RecordMinutes(a)[1]

\* a page's list is stale: it still offers a start time that a record stored
\* by the other page covers
AdminListStale ==
    \E r \in db : /\ r.source = "user" /\ r.status = "CONFIRMED"
                  /\ r.sessionId = addSessionId
                  /\ r.startTime \in Range(availableForAdd(aSessions, addSessionId, addDuration))

\* the admin page asked for a start time its stale list still offers, the
\* user's booking covers it, and the store refused
C1_Witness ==
    /\ req["admin"].state = "done" /\ req["admin"].outcome = "ConflictError"
    /\ AdminListStale
    /\ req["admin"].payload.startTime \in
          Range(availableForAdd(aSessions, addSessionId, addDuration))
    /\ \E r \in db : /\ r.source = "user"
                     /\ r.sessionId = req["admin"].payload.sessionId
                     /\ r.startTime = <<10, 30>>
                     /\ req["admin"].payload.startTime = <<10, 30>>

\* C14: an admission answered with ConflictError leaves the store as it was,
\* and the page that gets the answer only keeps the error message: it sends
\* nothing, and a request is sent again only by the page's create handler,
\* that is by a new press of the create button.
C14_NoAutoRetry ==
    [][\A c \in Clients :
          /\ (req[c].state = "read" /\ req'[c].outcome = "ConflictError") =>
                (db' = db /\ nextId' = nextId)
          /\ (req[c].state = "done" /\ req[c].outcome = "ConflictError"
                                    /\ req'[c] # req[c]) =>
                /\ req'[c] = IdleRequest
                /\ db' = db
                /\ aFetch' = aFetch /\ uRefresh' = uRefresh
                /\ del' = del /\ uMine' = uMine
                /\ c = "admin" => (aError' = "ConflictError" /\ aSessions' = aSessions)
                /\ c = "user" => (uError' = "ConflictError" /\ uCreate' = "idle"
                                                            /\ uLoading' = FALSE)
          /\ (req'[c].state = "sent" /\ req[c].state # "sent") =>
                /\ req[c].state = "idle"
                /\ \/ (c = "admin" /\ AdminCreateReservation)
                   \/ (c = "user" /\ UserCreateReservation)]_vars

\* the admin page has taken a ConflictError: the message is shown, no request
\* is open, and the store holds only the user's booking
C14_Witness ==
    /\ aError = "ConflictError"
    /\ req["admin"] = IdleRequest
    /\ Cardinality(db) = 1
    /\ \E r \in db : r.source = "user" /\ r.sessionId = addSessionId

----------------------------------------------------------------------------
(* The admin page open alone *)

InitAdmin ==
    /\ db = {}
    /\ nextId = 1
    /\ req = [c \in Clients |-> IdleRequest]
    /\ eng = EngIdle
    /\ log = <<>>
    /\ del = IdleDelete
    /\ aSessions = <<>>
    /\ aFetch = <<FetchFor("timer", Today, 1)>>
    /\ aLoading = TRUE
    /\ addSessionId = 1
    /\ addDuration = 60
    /\ addStartTime = NoTime
    /\ aError = ""
    /\ uSessions = <<>> /\ uRefresh = <<>> /\ uLoading = FALSE /\ uCreate = "idle"
    /\ selectedSessionId = 0 /\ startTime = NoTime /\ duration = 60 /\ uError = ""
    /\ uMine = IdleMine /\ myReservations = {}
    /\ AdminMounted /\ RestIdle

NextAdmin ==
    \/ StoreAdmitRead("admin")
    \/ StoreAdmitWrite("admin")
    \/ StoreDelete
    \/ \E i \in 1..(MaxInFlight + 1) : StoreAdminSessions(i)
    \/ AdminTimerFetch
    \/ AdminHandleRefresh
    \/ \E i \in 1..(MaxInFlight + 1) : AdminFetchDone(i)
    \/ \E sessionId \in SessionIds : AdminSetAddSessionId(sessionId)
    \/ \E t \in CHOICE_STARTS : AdminSetAddStartTime(t)
    \/ AdminCreateReservation
    \/ AdminCreateDone
    \/ \E i \in SessionIds, k \in 1..MaxId : AdminDeleteReservation(i, k)
    \/ AdminDeleteDone

SpecAdmin == InitAdmin /\ [][NextAdmin]_vars

\* no request of the admin page is open
AdminQuiet == aFetch = <<>> /\ req["admin"].state = "idle" /\ del.state = "idle"

ListedIds(i) == [k \in 1..Len(aSessions[i].reservations) |-> aSessions[i].reservations[k].id]

\* C19: once an add of the admin page has succeeded and no request of the
\* page is open, each session's list shows exactly the records the store
\* holds for that session on the displayed date, each once.
C19_ListsMatchStore ==
    (AdminQuiet /\ nextId > 1) =>
        \A i \in 1..Len(aSessions) :
            /\ Range(ListedIds(i)) =
                  {r.id : r \in {x \in db : x.sessionId = aSessions[i].sessionId
                                            /\ x.date = Today}}
            /\ \A j \in 1..Len(ListedIds(i)) : \A k \in 1..Len(ListedIds(i)) :
                  j # k => ListedIds(i)[j] # ListedIds(i)[k]

----------------------------------------------------------------------------
(* The user page open alone, on a store that holds one reservation *)

UserStore0 == StoreOf({<<600, 660>>})

InitUser ==
    /\ db = UserStore0
    /\ nextId = Cardinality(UserStore0) + 1
    /\ req = [c \in Clients |-> IdleRequest]
    /\ eng = EngIdle
    /\ log = <<>>
    /\ del = IdleDelete
    /\ aSessions = <<>> /\ aFetch = <<>> /\ aLoading = FALSE
    /\ addSessionId = 1 /\ addDuration = 60 /\ addStartTime = NoTime /\ aError = ""
    /\ uSessions = <<>>
    /\ uRefresh = <<NewRefresh(0, 60, "effect")>>
    /\ uLoading = TRUE
    /\ uCreate = "idle"
    /\ selectedSessionId = 0
    /\ startTime = NoTime
    /\ duration = 60
    /\ uError = ""
    /\ uMine = NewMine("effect")
    /\ myReservations = {}
    /\ AdminUnmounted /\ RestIdle

NextUser ==
    \/ StoreAdmitRead("user")
    \/ StoreAdmitWrite("user")
    \/ \E i \in 1..(MaxInFlight + 1) : StoreUserSessions(i)
    \/ \E i \in 1..(MaxInFlight + 1) : StoreUserSessionsFail(i)
    \/ StoreMyReservations
    \/ \E i \in SessionIds : UserSetSelectedSession(i)
    \/ \E d \in USER_DURATIONS : UserSetDuration(d)
    \/ \E t \in CHOICE_STARTS : UserSetStartTime(t)
    \/ \E i \in 1..(MaxInFlight + 1) : UserRefreshDone(i)
    \/ UserCreateReservation
    \/ UserCreateDone
    \/ UserMineDone
    \/ UserCreateFinish

SpecUser == InitUser /\ [][NextUser]_vars

\* the start times the store can have reported for a session and a duration:
\* those free over the reservations it held when the page was opened (the
\* store only gains reservations while the user page is the only client)
ReportedFor(sessionId, d) ==
    {AsTime(t) : t \in {g \in LoopStarts(d) :
        \A r \in UserStore0 :
            r.sessionId = sessionId =>
                \/ g + d <= r.endTime[1] * 60 + r.endTime[2] - 60
                \/ g >= r.endTime[1] * 60 + r.endTime[2]}}

\* C18: every reservation request of the user page carries a start time the
\* store has reported as available for the request's own session, date and
\* duration.
C18_RequestFromReportedSlot ==
    req["user"].state = "sent" =>
        req["user"].payload.startTime \in
            ReportedFor(req["user"].payload.sessionId, req["user"].payload.durationMin)

----------------------------------------------------------------------------
(* AdminPage alone, with its token, date, auto-refresh switch and the       *)
(* 30 second interval of its fetch effect, over a clock.                    *)

MaxTicks == 7
MaxEffectRuns == 4
ADMIN_DATES == {Today, Today + 1}

\* window.clearInterval(interval) in the cleanup of an effect run
ClearInterval_Leak(timers, effect) == timers

ClearInterval(timers, effect) == {t \in timers : t.effect # effect}

TimerDue(t) == t.start + TimerTicks * (t.fired + 1)

\* the fetch effect, re-run with a token set because token, date or
\* autoRefresh changed: the cleanup of the previous run, then the body with
\* the new values
RunFetchEffect(d, auto) ==
    /\ aEffect' = aEffect + 1
    /\ aTimers' = ClearInterval(aTimers, aEffect) \cup
                  (IF auto THEN {[NewTimer(aEffect + 1, now) EXCEPT !.date = d]}
                           ELSE {})
    /\ aFetch' = Append(aFetch, FetchFor("effect", d, aEffect + 1))
    /\ aLoading' = TRUE
    /\ aError' = ""

\* the date input of the dashboard, shown when a token is set
AdminSetDate(d) ==
    /\ aEffect # 0 /\ token # 0
    /\ d \in ADMIN_DATES /\ d # aDate
    /\ aEffect < MaxEffectRuns
    /\ AdminInFlight < AdminLimit
    /\ aDate' = d
    /\ RunFetchEffect(d, autoRefresh)
    /\ UNCHANGED <<storeVars, del, aSessions, addSessionId, addDuration, addStartTime,
                   userVars, token, autoRefresh, now, aLogin, aSessionsDate, restVars>>

\* the auto-refresh checkbox
AdminSetAutoRefresh ==
    /\ aEffect # 0 /\ token # 0
    /\ aEffect < MaxEffectRuns
    /\ AdminInFlight < AdminLimit
    /\ autoRefresh' = ~autoRefresh
    /\ RunFetchEffect(aDate, ~autoRefresh)
    /\ UNCHANGED <<storeVars, del, aSessions, addSessionId, addDuration, addStartTime,
                   userVars, token, aDate, now, aLogin, aSessionsDate, restVars>>

\* AdminPage's handleLogin up to the POST, from the login form shown when
\* no token is set; the button is disabled while loading
AdminHandleLogin ==
    /\ aEffect # 0 /\ token = 0
    /\ ~aLoading /\ aLogin = "idle"
    /\ aLogin' = "sent"
    /\ aLoading' = TRUE
    /\ aError' = ""
    /\ UNCHANGED <<storeVars, del, aSessions, aFetch, addSessionId, addDuration,
                   addStartTime, userVars, token, aDate, autoRefresh, aEffect,
                   aTimers, now, aSessionsDate, restVars>>

\* the answer of POST /api/admin/login: setToken and setLoading(false), then
\* the fetch effect when the token has changed
AdminLoginDone(ok) ==
    /\ aLogin = "sent"
    /\ aLogin' = "idle"
    /\ IF ok /\ aEffect # 0
       THEN /\ token' = 1
            /\ RunFetchEffect(aDate, autoRefresh)
       ELSE /\ aLoading' = FALSE
            /\ aError' = IF aEffect # 0 THEN "LoginError" ELSE aError
            /\ UNCHANGED <<token, aEffect, aTimers, aFetch>>
    /\ UNCHANGED <<storeVars, del, aSessions, addSessionId, addDuration, addStartTime,
                   userVars, aDate, autoRefresh, now, aSessionsDate, restVars>>

\* AdminPage is unmounted: the cleanup of the current effect run
AdminUnmount ==
    /\ aEffect # 0
    /\ aEffect' = 0
    /\ aTimers' = ClearInterval(aTimers, aEffect)
    /\ UNCHANGED <<storeVars, adminVars, userVars, token, aDate, autoRefresh, now,
                   aLogin, aSessionsDate, restVars>>

\* an interval fires: fetchSessions of the effect run that set it
AdminIntervalFire ==
    \E t \in aTimers :
        /\ now = TimerDue(t)
        /\ aTimers' = (aTimers \ {t}) \cup {[t EXCEPT !.fired = t.fired + 1]}
        /\ aFetch' = Append(aFetch, FetchFor("timer", t.date, t.effect))
        /\ aLoading' = TRUE
        /\ aError' = ""
        /\ UNCHANGED <<storeVars, del, aSessions, addSessionId, addDuration,
                       addStartTime, userVars, token, aDate, autoRefresh, aEffect,
                       now, aLogin, aSessionsDate, restVars>>

\* TICK_MS pass; an interval that is due fires first
Tick ==
    /\ now < MaxTicks
    /\ \A t \in aTimers : now < TimerDue(t)
    /\ AdminInFlight < AdminLimit
    /\ now' = now + 1
    /\ UNCHANGED <<storeVars, adminVars, userVars, token, aDate, autoRefresh, aEffect,
                   aTimers, aLogin, aSessionsDate, restVars>>

\* the page is mounted with the token App passes, or without one
InitTimer ==
    /\ db = UserStore0
    /\ nextId = Cardinality(UserStore0) + 1
    /\ req = [c \in Clients |-> IdleRequest]
    /\ eng = EngIdle
    /\ log = <<>>
    /\ del = IdleDelete
    /\ aSessions = <<>>
    /\ addSessionId = 1 /\ addDuration = 60 /\ addStartTime = NoTime /\ aError = ""
    /\ uSessions = <<>> /\ uRefresh = <<>> /\ uLoading = FALSE /\ uCreate = "idle"
    /\ selectedSessionId = 0 /\ startTime = NoTime /\ duration = 60 /\ uError = ""
    /\ uMine = IdleMine /\ myReservations = {}
    /\ RestIdle
    /\ aDate = Today /\ autoRefresh = TRUE /\ aEffect = 1 /\ now = 0
    /\ aLogin = "idle" /\ aSessionsDate = 0
    /\ \/ /\ token = 1
          /\ aTimers = {NewTimer(1, 0)}
          /\ aFetch = <<FetchFor("effect", Today, 1)>>
          /\ aLoading = TRUE
       \/ /\ token = 0
          /\ aTimers = {}
          /\ aFetch = <<>>
          /\ aLoading = FALSE

NextTimer ==
    \/ \E i \in 1..(MaxInFlight + 2) : StoreAdminSessions(i)
    \/ \E i \in 1..(MaxInFlight + 2) : AdminFetchDone(i)
    \/ AdminHandleRefresh
    \/ \E d \in ADMIN_DATES : AdminSetDate(d)
    \/ AdminSetAutoRefresh
    \/ AdminHandleLogin
    \/ \E ok \in BOOLEAN : AdminLoginDone(ok)
    \/ AdminUnmount
    \/ AdminIntervalFire
    \/ Tick

SpecTimer == InitTimer /\ [][NextTimer]_vars

(* Properties of the refresh timer, checked under SpecTimer *)

LastFetch(fetches) == fetches[Len(fetches)]

TimerInv ==
    /\ Cardinality(aTimers) <= 1
    /\ \A t \in aTimers :
          /\ t.effect = aEffect /\ t.date = aDate
          /\ token # 0 /\ autoRefresh
          /\ t.start + TimerTicks * t.fired <= now /\ now <= TimerDue(t)
    /\ (aEffect # 0 /\ token # 0 /\ autoRefresh) => aTimers # {}

TimerStep ==
    /\ (aEffect' \notin {aEffect, 0} /\ token' # 0) =>
          aFetch' = Append(aFetch, FetchFor("effect", aDate', aEffect'))
    /\ (Len(aFetch') > Len(aFetch) /\ LastFetch(aFetch').origin = "timer") =>
          /\ token # 0 /\ autoRefresh /\ aEffect # 0
          /\ LastFetch(aFetch').effect = aEffect
          /\ LastFetch(aFetch').date = aDate
          /\ \E t \in aTimers : now = t.start + TimerTicks * (t.fired + 1)
    /\ now' # now => \A t \in aTimers : now < t.start + TimerTicks * (t.fired + 1)

\* C21: while a token is set and auto-refresh is on, the page fetches the
\* list once when the effect runs and then every 30 seconds; at most one
\* interval is set at any time, it belongs to the current effect run, and a
\* timer fetch is only ever issued by the current run's interval: once
\* auto-refresh is off, the date or token has changed or the page is
\* unmounted, the earlier interval issues nothing.
C21_OneTimer == []TimerInv /\ [][TimerStep]_vars

\* the date was changed, and the interval of the new effect run has fired
\* for the new date while the first run's interval is gone
C21_Witness ==
    /\ aDate = Today + 1 /\ aEffect = 2
    /\ \E t \in aTimers : t.effect = 2 /\ t.fired = 1 /\ t.start > 0
    /\ aFetch # <<>> /\ LastFetch(aFetch).origin = "timer"
    /\ LastFetch(aFetch).date = Today + 1

\* C24: whenever the mounted page has a token and no request in flight,
\* the list it shows was fetched for the date now selected.
C24_ListOfCurrentDate ==
    (aEffect # 0 /\ token # 0 /\ AdminInFlight = 0) => aSessionsDate = aDate

----------------------------------------------------------------------------
(* AdminPage's add form alone: the list is refreshed by the button only   *)
(* and nothing is deleted; the duration select is used.                     *)

NextAddForm ==
    \/ StoreAdmitRead("admin")
    \/ StoreAdmitWrite("admin")
    \/ \E i \in 1..(MaxInFlight + 1) : StoreAdminSessions(i)
    \/ AdminHandleRefresh
    \/ \E i \in 1..(MaxInFlight + 1) : AdminFetchDone(i)
    \/ \E sessionId \in SessionIds : AdminSetAddSessionId(sessionId)
    \/ \E t \in CHOICE_STARTS : AdminSetAddStartTime(t)
    \/ \E d \in ADMIN_DURATIONS : AdminSetAddDuration(d)
    \/ AdminCreateReservation
    \/ AdminCreateDone

SpecAddForm == InitAdmin /\ [][NextAddForm]_vars

(* Properties of the add form, checked under SpecAddForm *)

StartTimeInv ==
    LET candidates == availableForAdd(aSessions, addSessionId, addDuration) IN
    /\ (addStartTime = NoTime) <=> (candidates = <<>>)
    /\ candidates # <<>> => addStartTime \in Range(candidates)

CreateStep ==
    (req["admin"].state = "idle" /\ req'["admin"].state = "sent") =>
        /\ token # 0
        /\ req'["admin"].payload.startTime = addStartTime
        /\ addStartTime # NoTime
        /\ addStartTime \in Range(availableForAdd(aSessions,
                                     req'["admin"].payload.sessionId,
                                     req'["admin"].payload.durationMin))

\* C25: once the effects have run, the add form's start time is empty
\* exactly when the candidate list of the selected session and duration is
\* empty, and is otherwise one of the candidates; a create request is sent
\* only with a token and a start time, and the start time it carries is one
\* of the candidates computed from the page's own list.
C25_StartFromCandidates == []StartTimeInv /\ [][CreateStep]_vars

\* a request for 120 minutes from 10:30, the start picked by hand, is on
\* its way while the page's list already holds an earlier block
C25_Witness ==
    /\ req["admin"].state = "sent"
    /\ req["admin"].payload.startTime = <<10, 30>>
    /\ req["admin"].payload.durationMin = 120
    /\ \E i \in 1..Len(aSessions) : aSessions[i].reservations # <<>>

----------------------------------------------------------------------------
(* Properties of the local list updates, checked under SpecAdmin *)

SortedByStart(rows) ==
    \A j, k \in 1..Len(rows) : j < k => ~TimeBefore(rows[k].startTime, rows[j].startTime)

\* the lists before and after differ at most in the session given
OnlySession(sessionId) ==
    /\ Len(aSessions') = Len(aSessions)
    /\ \A i \in 1..Len(aSessions) :
          /\ aSessions'[i].sessionId = aSessions[i].sessionId
          /\ aSessions[i].sessionId # sessionId => aSessions'[i] = aSessions[i]

LocalListStep ==
    /\ (req["admin"].state = "done" /\ req'["admin"].state = "idle") =>
          IF req["admin"].outcome = "ok"
          THEN /\ OnlySession(req["admin"].record.sessionId)
               /\ \A i \in 1..Len(aSessions) :
                     (/\ aSessions[i].sessionId = req["admin"].record.sessionId
                      /\ SortedByStart(aSessions[i].reservations)) =>
                        /\ SortedByStart(aSessions'[i].reservations)
                        /\ \E k \in 1..Len(aSessions'[i].reservations) :
                              /\ aSessions'[i].reservations[k] = req["admin"].record
                              /\ RemoveAt(aSessions'[i].reservations, k)
                                   = aSessions[i].reservations
          ELSE aSessions' = aSessions
    /\ (del.state = "done" /\ del'.state = "idle") =>
          IF del.outcome = "ok"
          THEN /\ OnlySession(del.sessionId)
               /\ \A i \in 1..Len(aSessions) :
                     aSessions[i].sessionId = del.sessionId =>
                        /\ \A k \in 1..Len(aSessions'[i].reservations) :
                              aSessions'[i].reservations[k].id # del.id
                        /\ aSessions'[i].reservations =
                              SelectSeq(aSessions[i].reservations,
                                        LAMBDA row : row.id # del.id)
          ELSE aSessions' = aSessions

\* C27: inserting a created record into a session's list that is sorted by
\* start time leaves it sorted, with the record added and the other rows
\* in their order; only the list of the record's session changes; a local
\* delete removes the rows of the given id from the given session only;
\* when the request fails the lists are as they were.
C27_LocalFrame == [][LocalListStep]_vars

\* the second block created starts before the first and was put in front
\* of it, in the first session's list only
C27_Witness ==
    /\ Len(aSessions) = NumSessions
    /\ Len(aSessions[1].reservations) = 2
    /\ aSessions[1].reservations[1].id = 2
    /\ aSessions[1].reservations[2].id = 1
    /\ TimeBefore(aSessions[1].reservations[1].startTime,
                  aSessions[1].reservations[2].startTime)
    /\ aSessions[2].reservations = <<>>
    /\ AdminInFlight = 0

----------------------------------------------------------------------------
(* App.tsx: the login form, tryLogin against the two login endpoints, and   *)
(* logout.  The endpoints answer as they like: with a 2xx status ("ok"),    *)
(* with another status ("refused"), or not at all, fetch throwing           *)
(* ("failed").                                                              *)

EMAILS == {"", " ", "admin@demo.dev", " admin@demo.dev", "user@demo.dev"}
PASSWORDS == {"", "admin123", "pw"}
ANSWERS == {"ok", "refused", "failed"}

\* String.prototype.trim on the addresses typed
Trim(e) ==
    IF e = " " THEN ""
    ELSE IF e = " admin@demo.dev" THEN "admin@demo.dev"
    ELSE e

\* the store untouched and no page mounted
StoreUnused ==
    /\ db = {} /\ nextId = 1 /\ req = [c \in Clients |-> IdleRequest]
    /\ eng = EngIdle /\ log = <<>>
    /\ PagesClosed

InitApp == StoreUnused

\* the inputs are disabled while loading, and shown in login mode only
AppSetEmail(e) ==
    /\ session = "login" /\ ~appLoading
    /\ e # email
    /\ email' = e
    /\ UNCHANGED <<storeVars, adminVars, userVars, timerVars, aSessionsDate,
                   session, password, appLoading, appError, login, run, seeded>>

AppSetPassword(p) ==
    /\ session = "login" /\ ~appLoading
    /\ p # password
    /\ password' = p
    /\ UNCHANGED <<storeVars, adminVars, userVars, timerVars, aSessionsDate,
                   session, email, appLoading, appError, login, run, seeded>>

\* handleLogin up to the first request of tryLogin; the button is disabled
\* while loading
AppHandleLogin ==
    /\ session = "login" /\ ~appLoading
    /\ IF email = "" \/ password = ""
       THEN /\ appError' = "missing"
            /\ UNCHANGED <<appLoading, login>>
       ELSE /\ appLoading' = TRUE
            /\ appError' = ""
            /\ login' = [phase |-> "admin", email |-> Trim(email),
                         password |-> password, admin |-> "none", user |-> "none"]
    /\ UNCHANGED <<storeVars, adminVars, userVars, timerVars, aSessionsDate,
                   session, email, password, run, seeded>>

\* tryLogin's result from the two answers
LoginResult(admin, user) ==
    IF admin = "ok" THEN "admin"
    ELSE IF admin = "failed" THEN "failed"
    ELSE IF user = "ok" THEN "user"
    ELSE IF user = "failed" THEN "failed"
    ELSE "refused"

\* handleLogin from tryLogin's result on: setSession and setPassword(""), or
\* setError; then setLoading(false)
FinishLogin_KeepPassword(result) ==
    /\ IF result \in {"admin", "user"}
       THEN /\ session' = result
            /\ UNCHANGED <<password, appError>>
       ELSE /\ appError' = result
            /\ UNCHANGED <<session, password>>
    /\ appLoading' = FALSE

FinishLogin(result) ==
    /\ IF result \in {"admin", "user"}
       THEN /\ session' = result
            /\ password' = ""
            /\ appError' = appError
       ELSE /\ appError' = result
            /\ UNCHANGED <<session, password>>
    /\ appLoading' = FALSE

\* the answer of POST /api/admin/login: the result, or the second request
AppAdminLoginAnswer(a) ==
    /\ login.phase = "admin"
    /\ IF a = "refused"
       THEN /\ login' = [login EXCEPT !.phase = "user", !.admin = a]
            /\ UNCHANGED <<session, password, appError, appLoading>>
       ELSE /\ login' = [login EXCEPT !.phase = "idle", !.admin = a]
            /\ FinishLogin(LoginResult(a, "none"))
    /\ UNCHANGED <<storeVars, adminVars, userVars, timerVars, aSessionsDate,
                   email, run, seeded>>

\* the answer of POST /api/user/login
AppUserLoginAnswer(u) ==
    /\ login.phase = "user"
    /\ login' = [login EXCEPT !.phase = "idle", !.user = u]
    /\ FinishLogin(LoginResult(login.admin, u))
    /\ UNCHANGED <<storeVars, adminVars, userVars, timerVars, aSessionsDate,
                   email, run, seeded>>

\* handleLogout; the button is shown in admin and user mode
AppHandleLogout ==
    /\ session # "login"
    /\ session' = "login"
    /\ password' = ""
    /\ UNCHANGED <<storeVars, adminVars, userVars, timerVars, aSessionsDate,
                   email, appLoading, appError, login, run, seeded>>

NextApp ==
    \/ \E e \in EMAILS : AppSetEmail(e)
    \/ \E p \in PASSWORDS : AppSetPassword(p)
    \/ AppHandleLogin
    \/ \E a \in ANSWERS : AppAdminLoginAnswer(a)
    \/ \E u \in ANSWERS : AppUserLoginAnswer(u)
    \/ AppHandleLogout

SpecApp == InitApp /\ [][NextApp]_vars

(* Properties of the login machine, checked under SpecApp *)

AppInv ==
    /\ session \in {"login", "admin", "user"}
    /\ login.phase = "idle" => ~appLoading
    /\ login.phase # "idle" => session = "login"
    /\ session # "login" => password = ""

AppStep ==
    /\ (session = "login" /\ session' = "admin") =>
          /\ login.phase = "admin" /\ login'.phase = "idle"
          /\ login'.admin = "ok" /\ login'.user = "none"
          /\ password' = ""
    /\ (session = "login" /\ session' = "user") =>
          /\ login.phase = "user" /\ login'.phase = "idle"
          /\ login'.admin = "refused" /\ login'.user = "ok"
          /\ password' = ""
    /\ (login.phase # "idle" /\ login'.phase = "idle") =>
          /\ login'.admin = "ok" => session' = "admin"
          /\ (login'.admin = "refused" /\ login'.user = "ok") => session' = "user"
          /\ session' = "login" => (appError' # "" /\ password' = password)
    /\ (login.phase = "idle" /\ login'.phase # "idle") =>
          /\ email # "" /\ password # ""
          /\ login'.phase = "admin"
    /\ (login.phase = "idle" /\ login'.phase = "idle" /\ appError' # appError) =>
          /\ email = "" \/ password = ""
          /\ session' = "login"
    /\ (session # "login" /\ session' # session) =>
          /\ session' = "login" /\ password' = ""

\* C26: App is a three-mode machine. From login, an attempt ends in admin
\* mode only when the admin endpoint accepted, the user endpoint then not
\* having been called; in user mode only when the admin endpoint refused
\* and the user endpoint accepted; and otherwise in login mode with an
\* error. An attempt with empty email or password sends nothing. Logout
\* leads from admin and user mode to login. The password is empty after a
\* successful login and after logout, and loading is false whenever no
\* attempt is in flight.
C26_LoginMachine == []AppInv /\ [][AppStep]_vars

\* a first attempt was refused by both endpoints; the second, with the
\* address typed with a leading blank, was refused by the admin endpoint
\* and accepted by the user endpoint
C26_Witness ==
    /\ session = "user" /\ password = "" /\ email = " admin@demo.dev"
    /\ login = [phase |-> "idle", email |-> "admin@demo.dev", password |-> "pw",
                admin |-> "refused", user |-> "ok"]
    /\ ~appLoading

----------------------------------------------------------------------------
(* run_all.sh and run_all.ps1: the script's process, the uvicorn backend it *)
(* starts and the npm (Vite) front end, with the signals of a terminal.     *)
(* run.pc is the statement the script is at; run.missing is the one thing   *)
(* the machine lacks, if any.                                               *)

SH_MISSING == {"none", "backend", "venv", "activate", "frontend", "npm"}
PS_MISSING == {"none", "backend", "venv", "frontend", "package", "npm"}

InitRunAll ==
    /\ db = {} /\ nextId = 1 /\ req = [c \in Clients |-> IdleRequest]
    /\ eng = EngIdle /\ log = <<>>
    /\ del = IdleDelete
    /\ aSessions = <<>> /\ aFetch = <<>> /\ aLoading = FALSE
    /\ addSessionId = 1 /\ addDuration = 60 /\ addStartTime = NoTime /\ aError = ""
    /\ uSessions = <<>> /\ uRefresh = <<>> /\ uLoading = FALSE /\ uCreate = "idle"
    /\ selectedSessionId = 0 /\ startTime = NoTime /\ duration = 60 /\ uError = ""
    /\ uMine = IdleMine /\ myReservations = {}
    /\ AdminUnmounted /\ AppIdle /\ seeded = {}
    /\ \/ \E m \in SH_MISSING :
             run = [IdleRun EXCEPT !.script = "sh", !.missing = m, !.pc = "check_backend"]
       \/ \E m \in PS_MISSING :
             run = [IdleRun EXCEPT !.script = "ps1", !.missing = m, !.pc = "check_backend"]

RunFrame == UNCHANGED <<storeVars, adminVars, userVars, timerVars, aSessionsDate,
                        appVars, seeded>>

\* kill ${BACKEND_PID}, Stop-Job: the backend is stopped if it is running
Killed(backend) == IF backend = "running" THEN "stopped" ELSE backend

\* run_all.sh, statement by statement; set -e ends the script at a failing
\* check, and the EXIT trap runs when the shell itself exits
ShStep ==
    /\ run.script = "sh"
    /\ run' =
         CASE run.pc = "check_backend" ->
                [run EXCEPT !.pc = IF run.missing = "backend" THEN "ended"
                                   ELSE "check_venv"]
           [] run.pc = "check_venv" ->
                [run EXCEPT !.pc = IF run.missing = "venv" THEN "ended"
                                   ELSE "check_activate"]
           [] run.pc = "check_activate" ->
                [run EXCEPT !.pc = IF run.missing = "activate" THEN "ended"
                                   ELSE "check_frontend"]
           [] run.pc = "check_frontend" ->
                [run EXCEPT !.pc = IF run.missing = "frontend" THEN "ended"
                                   ELSE "source"]
           [] run.pc = "source" ->
                [run EXCEPT !.pc = "cd_backend"]
           [] run.pc = "cd_backend" ->
                [run EXCEPT !.pc = "uvicorn"]
           \* uvicorn ... &: an asynchronous command of a shell without job
           \* control starts with SIGINT ignored
           [] run.pc = "uvicorn" ->
                [run EXCEPT !.pc = "trap", !.backend = "running", !.sigint = "ignored"]
           [] run.pc = "trap" ->
                [run EXCEPT !.pc = "cd_frontend", !.trap = TRUE]
           [] run.pc = "cd_frontend" ->
                [run EXCEPT !.pc = "exec"]
           \* exec npm run dev: the shell is replaced, and its traps with it;
           \* without npm the shell exits and the EXIT trap runs
           [] run.pc = "exec" ->
                IF run.missing = "npm"
                THEN [run EXCEPT !.pc = "ended", !.trap = FALSE,
                                 !.backend = Killed(run.backend)]
                ELSE [run EXCEPT !.pc = "replaced", !.trap = FALSE,
                                 !.frontend = "running"]
           [] OTHER -> run
    /\ run' # run
    /\ RunFrame

\* run_all.ps1, statement by statement; a throw ends the script, and the
\* finally block runs when the try block is left
PsStep ==
    /\ run.script = "ps1"
    /\ run' =
         CASE run.pc = "check_backend" ->
                [run EXCEPT !.pc = IF run.missing = "backend" THEN "ended"
                                   ELSE "check_venv"]
           [] run.pc = "check_venv" ->
                [run EXCEPT !.pc = IF run.missing = "venv" THEN "ended"
                                   ELSE "check_frontend"]
           [] run.pc = "check_frontend" ->
                [run EXCEPT !.pc = IF run.missing = "frontend" THEN "ended"
                                   ELSE "check_package"]
           [] run.pc = "check_package" ->
                [run EXCEPT !.pc = IF run.missing = "package" THEN "ended"
                                   ELSE "start_job"]
           [] run.pc = "start_job" ->
                [run EXCEPT !.pc = "try", !.backend = "running", !.sigint = "job"]
           [] run.pc = "try" ->
                IF run.missing = "npm"
                THEN [run EXCEPT !.pc = "finally"]
                ELSE [run EXCEPT !.pc = "npm", !.frontend = "running"]
           [] run.pc = "finally" ->
                [run EXCEPT !.pc = "ended", !.backend = Killed(run.backend)]
           [] OTHER -> run
    /\ run' # run
    /\ RunFrame

\* uvicorn installs its own SIGINT handler once it is up
BackendInstallsHandler ==
    /\ run.backend = "running" /\ run.sigint = "ignored"
    /\ run' = [run EXCEPT !.sigint = "handler"]
    /\ RunFrame

\* the backend ends on its own
BackendExit ==
    /\ run.backend = "running"
    /\ run' = [run EXCEPT !.backend = "stopped"]
    /\ RunFrame

\* the front end ends on its own; under run_all.ps1 the npm call returns
FrontendExit ==
    /\ run.frontend = "running"
    /\ run' = [run EXCEPT !.frontend = "ended",
                          !.pc = IF run.script = "ps1" THEN "finally" ELSE run.pc]
    /\ RunFrame

\* what SIGINT does to a backend in the terminal's foreground process group
AfterSigint(backend, sigint) ==
    IF backend = "running" /\ sigint = "handler" THEN "stopped" ELSE backend

\* Ctrl+C while run_all.sh or the npm it became is in the foreground:
\* SIGINT goes to the whole process group. A shell with the trap set runs
\* it and goes on; one without ends; npm ends.
ShCtrlC ==
    /\ run.script = "sh"
    /\ run.pc # "ended"
    /\ run.pc = "replaced" => run.frontend = "running"
    /\ run' =
         IF run.pc = "replaced"
         THEN [run EXCEPT !.frontend = "ended",
                          !.backend = AfterSigint(run.backend, run.sigint)]
         ELSE IF run.trap
         THEN [run EXCEPT !.backend = Killed(run.backend)]
         ELSE [run EXCEPT !.pc = "ended",
                          !.backend = AfterSigint(run.backend, run.sigint)]
    /\ run' # run
    /\ RunFrame

\* Ctrl+C while run_all.ps1 runs: npm ends and the finally block runs; before
\* the try block the script just ends
PsCtrlC ==
    /\ run.script = "ps1"
    /\ run.pc \notin {"ended", "finally"}
    /\ run' =
         IF run.pc = "npm"
         THEN [run EXCEPT !.frontend = "ended", !.pc = "finally"]
         ELSE [run EXCEPT !.pc = "ended"]
    /\ RunFrame

NextRunAll ==
    \/ ShStep
    \/ PsStep
    \/ BackendInstallsHandler
    \/ BackendExit
    \/ FrontendExit
    \/ ShCtrlC
    \/ PsCtrlC

SpecRunAll == InitRunAll /\ [][NextRunAll]_vars

\* the front-end process has ended and the script is no more
RunOver ==
    /\ run.frontend = "ended"
    /\ run.pc \in {"ended", "replaced"}

\* C22: once the front end started by run_all has ended and the script is
\* gone, the backend the script started is not running.
C22_BackendStopped == RunOver => run.backend # "running"

----------------------------------------------------------------------------
(* The store's seed data (README, REST API): the seed reservations of a     *)
(* date and session are inserted at the first session query for them, once. *)
(* Clients query a date before they post for it, as both pages do.          *)

SEED_INTERVALS == {<<600, 660>>, <<720, 780>>}      \* 10:00-11:00, 12:00-13:00
SEED_POST_STARTS == {600, 660}

\* the store has not yet been queried for the date and session
NeedsSeed_Always(marks, date, sessionId) == TRUE

NeedsSeed(marks, date, sessionId) == <<date, sessionId>> \notin marks

SeedBefore(x, y) == x[1] < y[1] \/ (x[1] = y[1] /\ x[2][1] < y[2][1])

\* the seed rows of the sessions given, with identifiers from firstId on
SeedRows(date, sessions, firstId) ==
    LET New == sessions \X SEED_INTERVALS IN
    {[id |-> firstId + Cardinality({y \in New : SeedBefore(y, x)}),
      sessionId |-> x[1], date |-> date,
      startTime |-> minutesToTime(x[2][1]), endTime |-> minutesToTime(x[2][2]),
      status |-> "CONFIRMED", source |-> "seed"] : x \in New}

QueryEntry(date) ==
    [client |-> "query", payload |-> [NoPayload EXCEPT !.date = date], outcome |-> "ok"]

\* a session query for a date, GET /api/admin/sessions or GET
\* /api/user/sessions: seeds first, for the sessions that need them
SeedQuery(date) ==
    /\ Len(log) + OpenCreates < MaxAdmissions
    /\ LET sessions == {sessionId \in SessionIds : NeedsSeed(seeded, date, sessionId)}
           rows == SeedRows(date, sessions, nextId) IN
       /\ db' = db \cup rows
       /\ nextId' = nextId + Cardinality(rows)
       /\ seeded' = seeded \cup {<<date, sessionId>> : sessionId \in sessions}
    /\ log' = Append(log, QueryEntry(date))
    /\ UNCHANGED <<req, eng, adminVars, userVars, timerVars, aSessionsDate, appVars, run>>

\* a reservation request for a date and session already queried
SeedPost(c, sessionId, date, t) ==
    /\ <<date, sessionId>> \in seeded
    /\ DirectPost(c, sessionId, date, t, 60)

InitSeed == StoreUnused

NextSeed ==
    \/ \E date \in Dates : SeedQuery(date)
    \/ \E c \in Clients, sessionId \in SessionIds, date \in Dates,
          t \in SEED_POST_STARTS : SeedPost(c, sessionId, date, t)
    \/ \E c \in Clients : DirectAdmitRead(c)
    \/ \E c \in Clients : DirectAdmitWrite(c)
    \/ \E c \in Clients : DirectReceive(c)

SpecSeed == InitSeed /\ [][NextSeed]_vars

SeedCopies(date, sessionId, iv) ==
    {r \in db : /\ r.source = "seed" /\ r.date = date /\ r.sessionId = sessionId
                /\ RecordMinutes(r) = iv}

Queries == SelectSeq(log, LAMBDA e : e.client = "query")

=============================================================================
